---- MODULE Spec2Model ----
(***************************************************************************)
(* solarlog2mqtt: request scheduler, retry contract, startup sequence,     *)
(* response dispatcher and bridge restart, as one state machine.           *)
(*                                                                         *)
(* Every asyncio task is a process.  A step of a process is the code it    *)
(* runs between two suspension points (an awaited network call or an       *)
(* asyncio.sleep); code between suspension points is atomic because the    *)
(* event loop is single-threaded and non-preemptive.                       *)
(***************************************************************************)
EXTENDS Integers, Sequences, FiniteSets, TLC

(***************************************************************************)
(* Bounds of the model                                                     *)
(***************************************************************************)
MaxInv == 1            \* device indices 0..MaxInv-1 appear in payloads
MaxRestartDelay == 1   \* --restart_delay ranges over 0..MaxRestartDelay
MaxStatusLen == 2      \* length of the 608 status array of a fast payload
MaxDev == 2            \* device indices 0..MaxDev-1 of the decode harness
MaxAttempts == 3       \* attempts passed to request_with_retry by the harness
MaxCookieLen == 2      \* parts of a set-cookie header of a login response
MaxBodyLen == 2        \* characters of the body of a /logcheck response
MaxLoginFailures == 5  \* login_failures is followed up to this value

(***************************************************************************)
(* Program constants                                                       *)
(***************************************************************************)
MAX_REQUEST_FAILURES == 4
MAX_LOGIN_FAILURES == 4
MAX_DEVICES_DISCOVERY == 64
EXIT_CODE_RESTART_REQUIRED == 2
EXIT_CODE_CLEAN == 0
MAX_SWITCH_GROUPS == 10
RETRY_DELAY_CAP == 30
STARTUP_INITIAL_DELAY == 2
STARTUP_MAX_DELAY == 60
NotExited == 0 - 1

\* The request bodies, as the sequence of their top-level field ids
\* (the text of a body starts with '{"<first field>"').
STARTUP_DATA == <<"152", "161", "162", "447", "610", "611", "617", "706", "739", "740", "744", "800", "801", "858", "895">>
POLLING_DATA == <<"447", "777", "778", "801">>
FAST_POLL_DATA == <<"608", "780", "781", "782", "794", "801", "858">>
HISTORIC_DATA == <<"854", "877", "878">>
HISTORIC_DATA_500 == <<"854">>
SIMPLE_STARTUP_DATA == <<"610", "611", "617", "706", "800", "801">>
SIMPLE_POLL_DATA == <<"801">>
MONTHS_JSON == <<"/months.json", "?_=">>
YEARS_JSON == <<"/years.json", "?_=">>

\* request_device_info: '{"141":{"0":{...},...,"n-1":{...}}}'
DeviceInfoRequest(max_devices) ==
  <<"141">> \o [k \in 1..max_devices |-> ToString(k - 1)]

Min(a, b) == IF a < b THEN a ELSE b
Max(a, b) == IF a > b THEN a ELSE b

\* Optional values: <<>> is None, <<v>> is the value v.
None == <<>>
Some(v) == <<v>>
IsNone(o) == Len(o) = 0

\* JSON values as the decoders meet them: a number, a text, null, a nested
\* array, or no value (key absent).
JInt(n) == [t |-> "int", v |-> n, s |-> ""]
JStr(x) == [t |-> "str", v |-> 0, s |-> x]
JNull == [t |-> "null", v |-> 0, s |-> ""]
JList == [t |-> "list", v |-> 0, s |-> ""]
JAbsent == [t |-> "absent", v |-> 0, s |-> ""]

(***************************************************************************)
(* Processes                                                               *)
(***************************************************************************)
MainTask == "main"
LoopTasks == {"fast", "regular", "simple", "historic"}
Harness == "harness"
Tasks == {MainTask} \cup LoopTasks \cup {Harness}

VARIABLES
  daemon_args,      \* the effective configuration
  running,          \* the module-level running flag
  request_counter,  \* SolarLogClient.request_counter
  session,          \* SolarLogClient.session: "open" or "None"
  data_processor,   \* the DataProcessor instance's fields
  pc,               \* position of every task
  frame,            \* locals of the request in progress of every task
  su_delay,         \* perform_startup_sequence's local delay
  exit_status,      \* exit status of the process, NotExited while alive
  restart_reason,   \* per task: reason passed to restart_bridge, "" if none
  signalled,        \* a SIGINT/SIGTERM has been handled
  devInfoCalls,     \* number of calls of request_device_info
  auth,             \* SolarLogClient.data_token and login_failures
  observed,         \* what the decodes so far showed of yesterday (history)
  ev                \* what the last step did (history)

vars == <<daemon_args, running, request_counter, session, data_processor, pc,
          frame, su_delay, exit_status, restart_reason, signalled,
          devInfoCalls, auth, observed, ev>>

(***************************************************************************)
(* Response payloads.  A payload is a record: keys is the set of top-level *)
(* keys present in the decoded JSON object, the other fields hold the      *)
(* values of the keys the model follows.                                   *)
(***************************************************************************)
EmptyTable == <<>>
\* A record of table 739: a JSON array (items) or some other JSON value.
DeviceRecord(items) == [isList |-> TRUE, items |-> items]
NotAnArray == [isList |-> FALSE, items |-> <<>>]
SAMPLE_DEVICE_LIST ==
  (1 :> DeviceRecord(<<JInt(0), JStr("SolarMax"), JInt(0), JInt(0), JInt(0), JInt(1)>>))
SAMPLE_BRAND_LIST == (0 :> "Sputnik")
StatusTexts == {"OK", "ACCESS DENIED"}
ModelTexts == {"500", "n/a"}

SeqsUpTo(S, n) == UNION {[1..k -> S] : k \in 0..n}

\* A key of a dict: json.loads yields string keys, range() yields ints,
\* and "3" is not 3.  The number is the one a string key spells.
KeyStr(i) == [t |-> "str", i |-> i]
KeyInt(i) == [t |-> "int", i |-> i]
\* A JSON object with its members, or a value that is no object
JObj(fields) == [isDict |-> TRUE, fields |-> fields]
NotADict == [isDict |-> FALSE, fields |-> <<>>]
\* An entry of block 447: its field 100 is the name, a text written as the
\* sequence of its parts
SwitchGroup(name) == JObj((KeyStr(100) :> name))
SAMPLE_SWITCH_GROUPS == JObj((KeyStr(0) :> SwitchGroup(<<"Pump", " ", "1">>)))

BasePayload ==
  [keys |-> {}, t739 |-> EmptyTable, t744 |-> EmptyTable, t740 |-> <<>>,
   model |-> "", status608 |-> <<>>, idx141 |-> {}, codes141 |-> <<>>,
   p780 |-> JInt(0), p781 |-> JInt(0),
   j101 |-> JAbsent, j105 |-> JAbsent, j106 |-> JAbsent, j107 |-> JAbsent,
   j110 |-> JAbsent, sc_today |-> JAbsent, sc_yesterday |-> JAbsent,
   t877 |-> <<>>, t878 |-> <<>>, rows |-> <<>>, t447 |-> NotADict]

StartupPayloads ==
  UNION {{[BasePayload EXCEPT !.keys = k, !.t739 = a, !.t744 = b, !.t740 = c, !.model = m] :
            a \in (IF "739" \in k THEN {EmptyTable, SAMPLE_DEVICE_LIST} ELSE {EmptyTable}),
            b \in (IF "744" \in k THEN {EmptyTable, SAMPLE_BRAND_LIST} ELSE {EmptyTable}),
            c \in (IF "740" \in k THEN SeqsUpTo({"OK", "Err"}, MaxInv) ELSE {<<>>}),
            m \in (IF "800" \in k THEN ModelTexts ELSE {""})} :
         k \in SUBSET {"739", "744", "740", "800"}}

\* The device answers 447 whenever it answers 800
WithSwitchGroups(data) ==
  IF "800" \in data.keys
  THEN [data EXCEPT !.keys = @ \cup {"447"}, !.t447 = SAMPLE_SWITCH_GROUPS]
  ELSE data
StartupResponses == {WithSwitchGroups(data) : data \in StartupPayloads}

DeviceInfoPayloads ==
  {BasePayload} \cup
  {[BasePayload EXCEPT !.keys = {"141"}, !.idx141 = s] : s \in SUBSET (0..(MaxInv - 1))}

FastPayloads ==
  UNION {{[BasePayload EXCEPT !.keys = k, !.status608 = s] :
            s \in (IF "608" \in k THEN SeqsUpTo(StatusTexts, MaxStatusLen) ELSE {<<>>})} :
         k \in SUBSET {"608", "780", "781"}}

PeriodicPayloads == {[BasePayload EXCEPT !.keys = k] : k \in SUBSET {"801"}}
HistoricPayloads == {[BasePayload EXCEPT !.keys = k] : k \in SUBSET {"854"}}
\* Rows [date, yield, consumption, self-consumption] of an aggregate table;
\* a date is written as a number
SAMPLE_ROWS == <<(<<1, 100, 80, 10>>), (<<2, 120, 90, 15>>)>>
ArrayPayloads ==
  {[BasePayload EXCEPT !.keys = k, !.rows = IF "rows" \in k THEN SAMPLE_ROWS ELSE <<>>] :
     k \in SUBSET {"rows"}}

\* What the device can answer to a request, by the request's first field.
PayloadsFor(req) ==
  CASE Head(req) = "152" -> StartupResponses
    [] Head(req) = "141" -> DeviceInfoPayloads
    [] Head(req) = "608" -> FastPayloads
    [] Head(req) \in {"447", "801"} -> PeriodicPayloads
    [] Head(req) = "854" -> HistoricPayloads
    [] Head(req) \in {"/months.json", "/years.json"} -> ArrayPayloads
    [] OTHER -> {BasePayload}

(***************************************************************************)
(* DataProcessor: the decoders, as far as the scheduler depends on them.   *)
(* A decoder maps (processor state, payload) to the new processor state    *)
(* and the set of topics it published.                                     *)
(***************************************************************************)
NewDataProcessor ==
  [device_list |-> None, brand_list |-> None, num_inverters |-> 0,
   inverter_names |-> <<>>, solar_log_model |-> None,
   device_infos |-> <<>>, device_types |-> <<>>, device_brands |-> <<>>,
   device_classes |-> <<>>, battery_index |-> <<>>,
   battery_device_present |-> FALSE, battery_present |-> FALSE,
   last_yield_day |-> 0, last_yield_yesterday |-> 0,
   last_selfcons_yesterday_fallback |-> 99,
   last_selfcons_ratio_yesterday_fallback |-> 990,
   switch_group_names |-> <<>>, num_switch_groups |-> 0]

\* Python truthiness of an optional table: None and {} are falsy.
Truthy(table) == ~IsNone(table) /\ DOMAIN table[1] # {}

\* int(block_800["100"]): raises ValueError on a non-numeric text
ParsesAsInt(text) == text \in {"500"}
IntOf(text) == CASE text = "500" -> 500 [] OTHER -> 0

\* _process_device_discovery: scan 740 from index 0 to the first "Err"
\* (a missing index reads as "Err") or index 100.
\* Variant: every entry that is not "Err" is counted, wherever it stands
ScanInverters_CountsEveryEntry(t740, numinv) ==
  Cardinality({i \in DOMAIN t740 : t740[i] # "Err"})
RECURSIVE ScanInverters(_, _)
ScanInverters(t740, numinv) ==
  IF numinv >= 100 THEN numinv
  ELSE LET statusuz == IF numinv + 1 \in DOMAIN t740 THEN t740[numinv + 1] ELSE "Err"
       IN IF statusuz # "Err" THEN ScanInverters(t740, numinv + 1) ELSE numinv

\* One publish: topic, device the topic names (-1: none), value
Pub(topic, value) == [topic |-> topic, dev |-> 0 - 1, value |-> value]
PubDev(topic, i, value) == [topic |-> topic, dev |-> i, value |-> value]

\* What a decoder leaves behind: the processor, what it published, and
\* whether an exception left the DataProcessor method.
Result(dp, pubs, escaped) ==
  [dp |-> dp, pubs |-> pubs, published |-> {p.topic : p \in pubs}, escaped |-> escaped]

\* dict.get(key) on a value that may be no dict: None when the key is absent
DictGet(d, key) ==
  IF d.isDict /\ key \in DOMAIN d.fields THEN Some(d.fields[key]) ELSE None

\* sg_name.replace(" ", "")
WithoutSpaces(name) == SelectSeq(name, LAMBDA part : part # " ")

\* _process_switch_groups, one pass of its loop: sgdata.get(isg) and
\* entry.get(100) look up int keys
SwitchGroupSlot(sgdata, isg) ==
  LET entry == DictGet(sgdata, KeyInt(isg))
      sg_name == IF entry # None THEN DictGet(entry[1], KeyInt(100)) ELSE None
  IN IF sg_name # None /\ sg_name[1] # <<>> THEN Some(WithoutSpaces(sg_name[1])) ELSE None

\* _process_switch_groups: the table of names and the count of the names set
ProcessSwitchGroups(dp, data) ==
  IF "447" \in data.keys
  THEN LET names == [k \in 1..MAX_SWITCH_GROUPS |-> SwitchGroupSlot(data.t447, k - 1)]
       IN [dp EXCEPT !.switch_group_names = names,
                     !.num_switch_groups = Cardinality({k \in DOMAIN names : names[k] # None})]
  ELSE dp

\* DataProcessor.process_startup_data
ProcessStartupData(dp, data) ==
  IF "800" \in data.keys /\ ~ParsesAsInt(data.model)
  THEN \* _process_device_system_info raised: the whole decode is abandoned
       Result(dp, {}, FALSE)
  ELSE
    LET dp1 == IF "800" \in data.keys
               THEN [dp EXCEPT !.solar_log_model = Some(IntOf(data.model))] ELSE dp
        dp2 == IF "739" \in data.keys THEN [dp1 EXCEPT !.device_list = Some(data.t739)] ELSE dp1
        dp3 == IF "744" \in data.keys THEN [dp2 EXCEPT !.brand_list = Some(data.t744)] ELSE dp2
        dp4 == IF "740" \in data.keys
               THEN [dp3 EXCEPT !.num_inverters = ScanInverters(data.t740, 0)]
               ELSE [dp3 EXCEPT !.num_inverters = 0]
        dp5 == ProcessSwitchGroups(dp4, data)
    IN Result(dp5,
              (IF "800" \in data.keys THEN {Pub("info/Model", JStr(data.model))} ELSE {})
                \cup (IF "740" \in data.keys
                      THEN {Pub("info/numinv", JInt(Max(dp4.num_inverters - 1, 0)))}
                      ELSE {}),
              FALSE)

\* sorted(indices_set) / list(range(n)) restricted to the keys present
RECURSIVE SortedSeq(_)
SortedSeq(S) ==
  IF S = {} THEN <<>>
  ELSE LET m == CHOOSE x \in S : \A y \in S : x <= y
       IN <<m>> \o SortedSeq(S \ {m})

\* DEVICE_CLASS_LIST (umlauts transliterated)
DEVICE_CLASS_LIST ==
  <<"Wechselrichter", "Sensor", "Zaehler", "Hybrid-System", "Batterie",
    "Intelligente Verbraucher", "Schalter", "Waermepumpe", "Heizstab", "Ladestation">>

\* int(x) succeeds / its value
IntConvOk(j) == j.t = "int" \/ (j.t = "str" /\ ParsesAsInt(j.s))
IntConvVal(j) == IF j.t = "int" THEN j.v ELSE IntOf(j.s)

\* int(math.log(n) / math.log(2)) for n >= 1
RECURSIVE FloorLog2(_)
FloorLog2(n) == IF n < 2 THEN 0 ELSE 1 + FloorLog2(n \div 2)

\* `if device_info:` for a record found in the table
RecordTruthy(rec) == ~rec.isList \/ Len(rec.items) > 0

\* The class of a truthy record, from the bitmask at index 5
ClassOfRecord(rec) ==
  LET has == rec.isList /\ Len(rec.items) > 5
      dclass_ok == has /\ IntConvOk(rec.items[6])
      dclass_val == IF dclass_ok THEN IntConvVal(rec.items[6]) ELSE 0
  IN IF dclass_ok /\ dclass_val > 0
     THEN LET class_idx == FloorLog2(dclass_val)
          IN IF class_idx < Len(DEVICE_CLASS_LIST)
             THEN DEVICE_CLASS_LIST[class_idx + 1] ELSE "Wechselrichter"
     ELSE "Wechselrichter"

\* One pass of the loop body of classify_devices for device i (0-based)
\* with info code `code`: what it appends to the three lists, and whether
\* it found a battery.  An exception raised after device_types.append is
\* caught by the handler of the loop body, which appends to all three.
ClassifyOne(dp, code) ==
  LET device_list == dp.device_list[1]
      brand_list == dp.brand_list[1]
      unknown == [types |-> <<"Unknown">>, brands |-> <<"Unknown">>,
                  classes |-> <<"Wechselrichter">>, battery |-> FALSE]
  IN IF code \notin DOMAIN device_list THEN unknown
     ELSE
       LET rec == device_list[code]
           device_type == IF rec.isList /\ Len(rec.items) > 1 /\ rec.items[2].t = "str"
                          THEN rec.items[2].s ELSE "Unknown"
           brand_idx_val == IF rec.isList /\ Len(rec.items) > 0 THEN rec.items[1] ELSE JInt(0)
           \* `idx in container` on a dict raises TypeError for an unhashable idx
           brand_raises == ~IntConvOk(brand_idx_val) /\ brand_idx_val.t = "list"
           device_brand == IF IntConvOk(brand_idx_val)
                              /\ IntConvVal(brand_idx_val) \in DOMAIN brand_list
                           THEN brand_list[IntConvVal(brand_idx_val)] ELSE "Unknown"
           device_class == ClassOfRecord(rec)
       IN IF ~RecordTruthy(rec) THEN unknown
          ELSE IF brand_raises
          THEN [types |-> <<device_type, "Unknown">>, brands |-> <<"Unknown">>,
                classes |-> <<"Wechselrichter">>, battery |-> FALSE]
          ELSE [types |-> <<device_type>>, brands |-> <<device_brand>>,
                classes |-> <<device_class>>, battery |-> device_class = "Batterie"]

\* for i, (name, info_code) in enumerate(zip(inverter_names, device_infos))
RECURSIVE ClassifyFrom(_, _, _)
ClassifyFrom(dp, i, acc) ==
  IF i > Min(Len(dp.inverter_names), Len(dp.device_infos)) THEN acc
  ELSE LET one == ClassifyOne(dp, dp.device_infos[i])
       IN ClassifyFrom(dp, i + 1,
            [types |-> acc.types \o one.types,
             brands |-> acc.brands \o one.brands,
             classes |-> acc.classes \o one.classes,
             battery_index |-> IF one.battery THEN Append(acc.battery_index, i - 1)
                               ELSE acc.battery_index])

\* DataProcessor.classify_devices
ClassifyDevices(dp) ==
  IF ~Truthy(dp.device_list) \/ ~Truthy(dp.brand_list) \/ dp.device_infos = <<>>
  THEN [dp EXCEPT !.device_types = [k \in 1..Len(dp.inverter_names) |-> "Unknown"],
                  !.device_brands = [k \in 1..Len(dp.inverter_names) |-> "Unknown"],
                  !.device_classes = [k \in 1..Len(dp.inverter_names) |-> "Wechselrichter"]]
  ELSE LET acc == ClassifyFrom(dp, 1, [types |-> <<>>, brands |-> <<>>, classes |-> <<>>,
                                        battery_index |-> <<>>])
       IN [dp EXCEPT !.device_types = acc.types,
                     !.device_brands = acc.brands,
                     !.device_classes = acc.classes,
                     !.battery_device_present = acc.battery_index # <<>>,
                     !.battery_index = acc.battery_index]

\* DataProcessor.publish_device_info
PublishDeviceInfo(dp) ==
  UNION {(IF i <= Len(dp.device_classes)
          THEN {PubDev("INV/deviceclass", dp.inverter_names[i], JStr(dp.device_classes[i]))}
          ELSE {})
         \cup (IF i <= Len(dp.device_types)
               THEN {PubDev("INV/devicetype", dp.inverter_names[i], JStr(dp.device_types[i]))}
               ELSE {})
         \cup (IF i <= Len(dp.device_brands)
               THEN {PubDev("INV/devicebrand", dp.inverter_names[i], JStr(dp.device_brands[i]))}
               ELSE {}) :
         i \in 1..Len(dp.inverter_names)}

\* device_entry.get('162', 0) for device i of the payload
InfoCode(data, i) == IF i \in DOMAIN data.codes141 THEN data.codes141[i] ELSE 0

\* process_device_info_data (inverter_names holds the device index of
\* every name: the name of device i is the text the device gave for i)
ProcessDeviceInfoData(dp, data) ==
  IF "141" \notin data.keys THEN Result(dp, {}, FALSE)
  ELSE
    LET known == dp.num_inverters > 0
        indices == IF known THEN 0..(dp.num_inverters - 1) ELSE data.idx141
        num_detected == Cardinality(data.idx141)
        dp1 == IF ~known /\ num_detected > 0
               THEN [dp EXCEPT !.num_inverters = num_detected] ELSE dp
        inv_names == SortedSeq(indices \cap data.idx141)
        infos == [k \in 1..Len(inv_names) |-> InfoCode(data, inv_names[k])]
        dp2 == [dp1 EXCEPT !.inverter_names = inv_names, !.device_infos = infos]
        dp3 == ClassifyDevices(dp2)
    IN Result(dp3,
              (IF ~known /\ num_detected > 0
               THEN {Pub("info/numinv", JInt(Max(num_detected - 1, 0)))} ELSE {})
                \cup PublishDeviceInfo(dp3),
              FALSE)

\* int(jget(k, 0)): the value, and whether int() raises (null, array, text)
JGetRaises(j) == j.t # "absent" /\ ~IntConvOk(j)
JGetInt(j) == IF j.t = "absent" THEN 0 ELSE IntConvVal(j)

\* (variant: the quotient is cut off instead of rounded)
RatioTenths_Truncates(a, b) == (a * 1000) \div b
\* round(a / b * 1000), Python's round (ties to even); the model publishes
\* the ratios in tenths of a percent
RatioTenths(a, b) ==
  LET q == (a * 1000) \div b
      r == (a * 1000) % b
  IN IF 2 * r < b THEN q
     ELSE IF 2 * r > b THEN q + 1
     ELSE IF q % 2 = 0 THEN q ELSE q + 1

\* entry[1] if len(entry) > 1 and entry[1] else 0
ValueOrZero(j) == IF j.t = "int" THEN j.v ELSE 0

\* DataProcessor.process_self_consumption for a 778/0 table: sc_today and
\* sc_yesterday are the second fields of the rows that carry today's and
\* yesterday's date (absent: the table has no such row)
ProcessSelfConsumption(dp, data) ==
  IF "778" \notin data.keys THEN Result(dp, {}, FALSE)
  ELSE
    LET has_today == data.sc_today.t # "absent"
        selfcons_today == ValueOrZero(data.sc_today)
        dayratio == IF dp.last_yield_day > 0
                    THEN RatioTenths(selfcons_today, dp.last_yield_day) ELSE 0
        dp1 == IF has_today
               THEN [dp EXCEPT !.last_selfcons_yesterday_fallback = selfcons_today,
                               !.last_selfcons_ratio_yesterday_fallback = dayratio]
               ELSE dp
        p1 == IF has_today
              THEN {Pub("SelfCons/selfconstoday", JInt(selfcons_today)),
                    Pub("SelfCons/selfconsratiotoday", JInt(dayratio))}
              ELSE {}
        selfcons_yesterday == ValueOrZero(data.sc_yesterday)
        dayratio_y == IF dp.last_yield_yesterday > 0
                      THEN RatioTenths(selfcons_yesterday, dp.last_yield_yesterday) ELSE 0
    IN IF data.sc_yesterday.t # "absent"
       THEN Result(dp1, p1 \cup {Pub("SelfCons/selfconsyesterday", JInt(selfcons_yesterday)),
                                 Pub("SelfCons/selfconsratioyesterday", JInt(dayratio_y))},
                   FALSE)
       ELSE Result(dp1, p1 \cup {Pub("SelfCons/selfconsyesterday",
                                     JInt(dp1.last_selfcons_yesterday_fallback)),
                                 Pub("SelfCons/selfconsratioyesterday",
                                     JInt(dp1.last_selfcons_ratio_yesterday_fallback))},
                   FALSE)

\* The 801/170 part of process_periodic_poll, statement by statement: the
\* first int() that raises ends it (fields 102..104, 106, 108, 109 and
\* 111..116 are absent from the model's payloads and read as 0).
ProcessSummary(dp, data) ==
  IF "801" \notin data.keys THEN Result(dp, {}, FALSE)
  ELSE IF JGetRaises(data.j101) THEN Result(dp, {}, TRUE)
  ELSE
    LET pac_val == JGetInt(data.j101)
        p1 == IF pac_val > 0 THEN {Pub("status/pac", JInt(pac_val))} ELSE {}
    IN IF JGetRaises(data.j110) THEN Result(dp, p1, TRUE)
       ELSE
         LET p2 == p1 \cup {Pub("status/conspac", JInt(JGetInt(data.j110)))}
         IN IF JGetRaises(data.j105) THEN Result(dp, p2, TRUE)
            ELSE
              LET dp0 == [dp EXCEPT !.last_yield_day = JGetInt(data.j105)]
                  dp1 == [dp0 EXCEPT !.last_yield_yesterday = JGetInt(data.j106)]
                  p3 == p2 \cup {Pub("status/yieldday", JInt(dp1.last_yield_day)),
                                 Pub("status/yieldyesterday",
                                     JInt(dp1.last_yield_yesterday))}
              IN IF JGetRaises(data.j106) THEN Result(dp0, p2, TRUE)
                 ELSE IF JGetRaises(data.j107) THEN Result(dp1, p3, TRUE)
                 ELSE Result(dp1,
                             p3 \cup {Pub("status/yieldmonth", JInt(JGetInt(data.j107))),
                                      Pub("info/lastSync", JStr(""))}
                                \cup {Pub(t, JInt(0)) :
                                        t \in {"status/yieldyear", "status/yieldtotal",
                                               "status/consyieldday",
                                               "status/consyieldyesterday",
                                               "status/consyieldmonth",
                                               "status/consyieldyear",
                                               "status/consyieldtotal"}},
                             FALSE)

\* DataProcessor.process_periodic_poll
ProcessPeriodicPoll(dp, data) ==
  LET sc == ProcessSelfConsumption(dp, data)
      sm == ProcessSummary(sc.dp, data)
  IN Result(sm.dp, sc.pubs \cup sm.pubs, sm.escaped)

\* (variant: the periodic decode rebuilds the table of switch group names)
ProcessPollingData_ClearsSwitchGroups(dp, data) ==
  LET pp == ProcessPeriodicPoll(dp, data)
      cleared == [pp.dp EXCEPT !.switch_group_names = <<>>]
  IN IF pp.escaped \/ "801" \notin data.keys THEN Result(cleared, pp.pubs, pp.escaped)
     ELSE Result(cleared, pp.pubs \cup {Pub("info/totalPower", JInt(0))}, FALSE)
\* process_polling_data: periodic decode plus info/totalPower; an
\* exception from the periodic decode skips the rest
ProcessPollingData(dp, data) ==
  LET pp == ProcessPeriodicPoll(dp, data)
  IN IF pp.escaped \/ "801" \notin data.keys THEN pp
     ELSE Result(pp.dp, pp.pubs \cup {Pub("info/totalPower", JInt(0))}, FALSE)

\* process_basic_data
ProcessBasicData(dp, data) ==
  IF "801" \in data.keys THEN ProcessPollingData(dp, data)
  ELSE Result(dp, {}, FALSE)

\* "DENIED" in str(first_status)
ContainsDenied(text) == text \in {"ACCESS DENIED"}

\* check_access_denied: looks at the first element of the 608 array
CheckAccessDenied(data) ==
  /\ "608" \in data.keys
  /\ Len(data.status608) > 0
  /\ ContainsDenied(data.status608[1])

\* data["780"] or 0
OrZero(j) == IF j.t = "int" THEN j.v ELSE 0

\* Variant: status/feedout carries the signed feed
ProcessProductionConsumption_SignedFeedOut(dp, data) ==
  IF ~({"780", "781"} \subseteq data.keys) THEN Result(dp, {}, FALSE)
  ELSE IF data.p780.t \notin {"int", "null"} \/ data.p781.t \notin {"int", "null"}
  THEN Result(dp, {}, TRUE)
  ELSE LET feed == OrZero(data.p780) - OrZero(data.p781)
       IN Result(dp,
                 {Pub("status/pac", JInt(OrZero(data.p780))),
                  Pub("status/conspac", JInt(OrZero(data.p781))),
                  Pub("status/feed", JInt(feed)),
                  Pub("status/feedin", JInt(IF feed > 0 THEN feed ELSE 0)),
                  Pub("status/feedinactive", JInt(IF feed > 0 THEN 1 ELSE 0)),
                  Pub("status/feedout", JInt(IF feed > 0 THEN 0 ELSE feed))},
                 FALSE)
\* DataProcessor.process_production_consumption without battery data
\* (battery_data = [0, 0, 0, 0]); True/False are published as 1/0
ProcessProductionConsumption(dp, data) ==
  IF ~({"780", "781"} \subseteq data.keys) THEN Result(dp, {}, FALSE)
  ELSE IF data.p780.t \notin {"int", "null"} \/ data.p781.t \notin {"int", "null"}
  THEN \* production - battery_data[3] raises TypeError
       Result(dp, {}, TRUE)
  ELSE LET production == OrZero(data.p780)
           consumption == OrZero(data.p781)
           feed == production - consumption
       IN Result(dp,
                 {Pub("status/pac", JInt(production)),
                  Pub("status/conspac", JInt(consumption)),
                  Pub("status/feed", JInt(feed)),
                  Pub("status/feedin", JInt(IF feed > 0 THEN feed ELSE 0)),
                  Pub("status/feedinactive", JInt(IF feed > 0 THEN 1 ELSE 0)),
                  Pub("status/feedout", JInt(IF feed > 0 THEN 0 ELSE 0 - feed))},
                 FALSE)

\* DataProcessor.process_fast_poll (payloads without 782, 784, 785, 794,
\* 801 and 858: only production and consumption are published)
ProcessFastPoll(dp, data) == ProcessProductionConsumption(dp, data)

\* The value of a period and, for a positive consumption, its ratio
\* round(((row[3] * 1000) / cons) * 1000) / 10, in tenths of a percent
PeriodPubs(row, topic, ratio_topic) ==
  IF Len(row) >= 4
  THEN {Pub(topic, JInt(row[4]))}
         \cup (IF row[3] > 0
               THEN {Pub(ratio_topic, JInt(RatioTenths(row[4] * 1000, row[3])))}
               ELSE {})
  ELSE {}

\* The dated series Historic/20yy/.../<name>: one entry per row that has
\* four fields and a yield; the date stands in the device position
SeriesPubs(table, names) ==
  UNION {{PubDev(names[k], table[r][1], JInt(table[r][k + 1])) : k \in 1..3} :
           r \in {q \in 1..Len(table) : Len(table[q]) >= 4 /\ table[q][2] # 0}}
MONTH_SERIES == <<"Historic/monthly/yieldmonth", "Historic/monthly/consmonth",
                  "Historic/monthly/selfconsmonth">>
YEAR_SERIES == <<"Historic/yieldyear", "Historic/consyear", "Historic/selfconsyear">>

\* Tables 877 and 878 of process_historic_response: data[-1] is the current
\* period, data[-2] the one before
TotalsPubs(table, current, last, names) ==
  (IF Len(table) >= 2
   THEN PeriodPubs(table[Len(table)], current[1], current[2])
          \cup PeriodPubs(table[Len(table) - 1], last[1], last[2])
   ELSE {})
    \cup SeriesPubs(table, names)

\* process_months_json / process_years_json: data[0] is published as the
\* current period, data[1] as the one before
ArrayPubs(table, current, last, names) ==
  SeriesPubs(table, names)
    \cup (IF Len(table) >= 2
          THEN PeriodPubs(table[1], current[1], current[2])
                 \cup PeriodPubs(table[2], last[1], last[2])
          ELSE {})

MONTH_TOPICS == <<"SelfCons/selfconsmonth", "SelfCons/selfconsratiomonth">>
LAST_MONTH_TOPICS == <<"SelfCons/selfconslastmonth", "SelfCons/selfconsratiolastmonth">>
YEAR_TOPICS == <<"SelfCons/selfconsyear", "SelfCons/selfconsratioyear">>
LAST_YEAR_TOPICS == <<"SelfCons/selfconslastyear", "SelfCons/selfconsratiolastyear">>

\* DataProcessor.process_historic_response (the per-inverter yields of
\* table 854 are summed up as one publish on Historic/yearly)
ProcessHistoricResponse(dp, data) ==
  Result(dp,
         (IF "854" \in data.keys THEN {Pub("Historic/yearly", JNull)} ELSE {})
           \cup (IF "877" \in data.keys
                 THEN TotalsPubs(data.t877, MONTH_TOPICS, LAST_MONTH_TOPICS, MONTH_SERIES)
                 ELSE {})
           \cup (IF "878" \in data.keys
                 THEN TotalsPubs(data.t878, YEAR_TOPICS, LAST_YEAR_TOPICS, YEAR_SERIES)
                 ELSE {}),
         FALSE)

\* DataProcessor.process_months_json / process_years_json
ProcessMonthsJson(dp, data) ==
  Result(dp, IF "rows" \in data.keys
             THEN ArrayPubs(data.rows, MONTH_TOPICS, LAST_MONTH_TOPICS, MONTH_SERIES)
             ELSE {}, FALSE)
ProcessYearsJson(dp, data) ==
  Result(dp, IF "rows" \in data.keys
             THEN ArrayPubs(data.rows, YEAR_TOPICS, LAST_YEAR_TOPICS, YEAR_SERIES)
             ELSE {}, FALSE)

(***************************************************************************)
(* Response dispatcher                                                     *)
(***************************************************************************)
\* '.json' in req_data
ContainsJson(req) ==
  \E k \in 1..Len(req) : req[k] \in {"/months.json", "/years.json"}

\* process_response: the decoder chosen by req_data.startswith(...)
ProcessResponse(req) ==
  CASE Head(req) = "152" -> {"startup"}
    [] Head(req) = "141" -> {"device_info"}
    [] Head(req) = "447" -> {"periodic"}
    [] Head(req) = "608" -> {"fast"}
    [] Head(req) = "801" -> {"basic"}
    [] Head(req) = "854" -> {"historic"}
    [] OTHER -> {}

\* process_json_response
ProcessJsonResponse(req) ==
  CASE Head(req) = "/months.json" -> {"months"}
    [] Head(req) = "/years.json" -> {"years"}
    [] OTHER -> {}

\* (variant: https_request without its '.json' test)
Dispatch_NoJsonTest(entry, req) == ProcessResponse(req)

\* The decoders run for a successful response, by the caller: log_check
\* always uses process_response, https_request tests for '.json' first.
Dispatch(entry, req) ==
  IF entry = "https_request" /\ ContainsJson(req)
  THEN ProcessJsonResponse(req)
  ELSE ProcessResponse(req)

\* Effect of the decoder that was chosen (a fast payload with the access
\* denied signature is not decoded: see Attempt).
Decode(decoder, dp, data) ==
  CASE decoder = "startup" -> ProcessStartupData(dp, data)
    [] decoder = "device_info" -> ProcessDeviceInfoData(dp, data)
    [] decoder = "periodic" -> ProcessPollingData(dp, data)
    [] decoder = "fast" -> ProcessFastPoll(dp, data)
    [] decoder = "basic" -> ProcessBasicData(dp, data)
    [] decoder = "historic" -> ProcessHistoricResponse(dp, data)
    [] decoder = "months" -> ProcessMonthsJson(dp, data)
    [] decoder = "years" -> ProcessYearsJson(dp, data)

\* The awaitables that hand control back to the event loop
SuspensionPoints == {"asyncio.sleep"}

\* (variant: process_self_consumption sleeps before it publishes)
AwaitsIn_SelfConsumptionSleeps(c) ==
  CASE c = "process_startup_data" ->
         {"_process_device_system_info", "_process_sd_card_info",
          "_process_device_discovery", "_process_switch_groups",
          "_process_battery_info", "_process_setpoint_data"}
    [] c = "process_fast_poll" ->
         {"process_inverter_status", "process_inverter_extras",
          "process_switch_group_states", "process_display_data",
          "process_battery_data", "process_production_consumption"}
    [] c = "process_periodic_poll" ->
         {"process_inverter_day_sums", "process_self_consumption"}
    [] c = "process_self_consumption" -> {"asyncio.sleep"}
    [] OTHER -> {}

\* The await expressions in the body of every coroutine of the
\* DataProcessor: classify_devices, publish_device_info and the leaf
\* decoders await nothing.
AwaitsIn(c) ==
  CASE c = "process_startup_data" ->
         {"_process_device_system_info", "_process_sd_card_info",
          "_process_device_discovery", "_process_switch_groups",
          "_process_battery_info", "_process_setpoint_data"}
    [] c = "process_fast_poll" ->
         {"process_inverter_status", "process_inverter_extras",
          "process_switch_group_states", "process_display_data",
          "process_battery_data", "process_production_consumption"}
    [] c = "process_periodic_poll" ->
         {"process_inverter_day_sums", "process_self_consumption"}
    [] OTHER -> {}

\* Awaiting a coroutine suspends the task only if a suspension point is
\* reached somewhere below it.
RECURSIVE Suspends(_)
Suspends(c) == c \in SuspensionPoints \/ \E d \in AwaitsIn(c) : Suspends(d)

\* What each handler awaits from its first mutation or publish on
DecodeCalls(decoder) ==
  CASE decoder = "startup" -> {"process_startup_data"}
    [] decoder = "device_info" -> {"classify_devices", "publish_device_info"}
    [] decoder \in {"periodic", "basic"} ->
         {"process_periodic_poll", "process_switch_group_details"}
    [] decoder = "fast" -> {"process_fast_poll"}
    [] decoder = "historic" -> {"process_historic_response"}
    [] decoder = "months" -> {"process_months_json"}
    [] decoder = "years" -> {"process_years_json"}

\* The handlers whose decode reaches a suspension point
YieldingDecoders ==
  {decoder \in {"startup", "device_info", "periodic", "basic", "fast", "historic",
                "months", "years"} :
     \E c \in DecodeCalls(decoder) : Suspends(c)}

YieldsInDecode(decoder) == decoder \in YieldingDecoders

\* The processor when a handler is suspended in the first of its awaits:
\* process_device_info_data has stored the names and info codes by then,
\* the other handlers have changed nothing.
BeforeYield(decoder, dp, data) ==
  IF decoder = "device_info" /\ "141" \in data.keys
  THEN LET known == dp.num_inverters > 0
           indices == IF known THEN 0..(dp.num_inverters - 1) ELSE data.idx141
           inv_names == SortedSeq(indices \cap data.idx141)
       IN [dp EXCEPT !.num_inverters = IF known THEN @ ELSE Cardinality(data.idx141),
                     !.inverter_names = inv_names,
                     !.device_infos = [k \in 1..Len(inv_names) |->
                                         InfoCode(data, inv_names[k])]]
  ELSE dp

(***************************************************************************)
(* SolarLogClient: login and check_login_status.  A text the code searches *)
(* (a set-cookie header, the body of /logcheck) is the sequence of its     *)
(* parts; data_token is the sequence of parts that was cut out.            *)
(***************************************************************************)
NoObservation == [seen_yesterday |-> {}, yields |-> <<0, 0>>]
NewAuth == [data_token |-> <<>>, login_failures |-> 0]

\* text.find(part, start): the first position >= start, 0 if there is none
Find(text, part, start) ==
  LET hits == {k \in start..Len(text) : text[k] = part}
  IN IF hits = {} THEN 0 ELSE CHOOSE k \in hits : \A j \in hits : k <= j

\* "SolarLog=" in set_cookie
HasToken(set_cookie) == Find(set_cookie, "SolarLog=", 1) # 0

\* login: set_cookie[token_start:token_end]
TokenOf(set_cookie) ==
  LET token_start == Find(set_cookie, "SolarLog=", 1) + 1
      semicolon == Find(set_cookie, ";", token_start)
      token_end == IF semicolon = 0 THEN Len(set_cookie) + 1 ELSE semicolon
  IN SubSeq(set_cookie, token_start, token_end - 1)

\* body.split(";")[0]
FirstField(body) ==
  LET semicolon == Find(body, ";", 1)
  IN IF semicolon = 0 THEN body ELSE SubSeq(body, 1, semicolon - 1)

\* What the device can answer to POST /login and GET /logcheck: a transport
\* error or timeout (err), or a status with a set-cookie header or a body
LoginResponses ==
  {[err |-> TRUE, status |-> 0, text |-> <<>>]}
  \cup {[err |-> FALSE, status |-> 401, text |-> <<>>]}
  \cup {[err |-> FALSE, status |-> 200, text |-> c] :
          c \in SeqsUpTo({"SolarLog=", "abc", ";"}, MaxCookieLen)}

ProbeResponses ==
  {[err |-> TRUE, status |-> 0, text |-> <<>>]}
  \cup {[err |-> FALSE, status |-> 500, text |-> <<>>]}
  \cup {[err |-> FALSE, status |-> 200, text |-> b] :
          b \in SeqsUpTo({"0", "1", ";"}, MaxBodyLen)}

NoResponse == [err |-> FALSE, status |-> 0, text |-> <<>>]

\* What a call did: the auth fields before and after, what it returned,
\* the transport calls it made and how often login was invoked
Exchange(before, after, ok, calls, logins, probe, login) ==
  [made |-> TRUE, before |-> before, after |-> after, ok |-> ok, calls |-> calls,
   logins |-> logins, probe |-> probe, login |-> login]

NoExchange ==
  [made |-> FALSE, before |-> NewAuth, after |-> NewAuth, ok |-> TRUE, calls |-> <<>>,
   logins |-> 0, probe |-> NoResponse, login |-> NoResponse]

\* SolarLogClient.login
Login(a, user_pass, resp) ==
  IF ~user_pass \/ session = "None"
  THEN Exchange(a, a, TRUE, <<>>, 1, NoResponse, NoResponse)
  ELSE IF resp.err
  THEN Exchange(a, [a EXCEPT !.login_failures = @ + 1],
                FALSE, <<"POST /login">>, 1, NoResponse, resp)
  ELSE IF resp.status = 200
  THEN IF HasToken(resp.text)
       THEN Exchange(a, [data_token |-> TokenOf(resp.text), login_failures |-> 0],
                     TRUE, <<"POST /login">>, 1, NoResponse, resp)
       ELSE Exchange(a, a, FALSE, <<"POST /login">>, 1, NoResponse, resp)
  ELSE Exchange(a, [a EXCEPT !.login_failures = @ + 1],
                FALSE, <<"POST /login">>, 1, NoResponse, resp)

\* (variant: the status probe is trusted whatever it answers)
CheckLoginStatus_NoFallback(a, user_pass, probe, resp) ==
  IF ~user_pass \/ session = "None"
  THEN Exchange(a, a, TRUE, <<>>, 0, NoResponse, NoResponse)
  ELSE IF probe.err
  THEN Exchange(a, a, FALSE, <<"GET /logcheck">>, 0, probe, NoResponse)
  ELSE IF probe.status = 200
  THEN Exchange(a, a, TRUE, <<"GET /logcheck">>, 0, probe, NoResponse)
  ELSE Exchange(a, a, FALSE, <<"GET /logcheck">>, 0, probe, NoResponse)

\* SolarLogClient.check_login_status
CheckLoginStatus(a, user_pass, probe, resp) ==
  IF ~user_pass \/ session = "None"
  THEN Exchange(a, a, TRUE, <<>>, 0, NoResponse, NoResponse)
  ELSE IF probe.err
  THEN Exchange(a, a, FALSE, <<"GET /logcheck">>, 0, probe, NoResponse)
  ELSE IF probe.status = 200
  THEN IF FirstField(probe.text) # <<"0">>
       THEN Exchange(a, a, TRUE, <<"GET /logcheck">>, 0, probe, NoResponse)
       ELSE LET l == Login(a, user_pass, resp)
            IN Exchange(a, l.after, l.ok, <<"GET /logcheck">> \o l.calls, 1, probe, resp)
  ELSE Exchange(a, a, FALSE, <<"GET /logcheck">>, 0, probe, NoResponse)

(***************************************************************************)
(* SolarLogClient: one attempt of request_with_auth_check + make_request   *)
(***************************************************************************)
\* What one attempt can meet.
\*   ok            200 and a JSON object
\*   null_json     200 and the JSON text null (json.loads gives None)
\*   timeout       aiohttp.ClientError / asyncio.TimeoutError
\*   http_error    a status other than 200
\*   bad_json      200 and a body json.loads rejects
\*   auth_fail     check_login_status returned False (credentials configured)
\*   no_session    self.session is None
\*   closed        the session is closing: aiohttp raises RuntimeError
AttemptOutcomes ==
  IF session = "None" THEN {"no_session"}
  ELSE IF session = "closed" THEN {"closed"}
  ELSE {"ok", "null_json", "timeout", "http_error", "bad_json"}
       \cup (IF daemon_args.credentials THEN {"auth_fail"} ELSE {})

\* make_request: request_counter after the attempt
CounterAfter(outcome, req, counter) ==
  CASE outcome = "timeout" -> counter + 1
    [] outcome \in {"ok", "null_json"} -> IF ContainsJson(req) THEN counter ELSE 0
    [] OTHER -> counter

\* request_with_retry: delay = min(delay * 2, 30.0)
NextRetryDelay(delay) == Min(delay * 2, RETRY_DELAY_CAP)

\* (variant: the range runs one attempt too far)
LastAttempt_OneMore(fr) == fr.i >= Max(1, fr.attempts) + 1

\* request_with_retry: range(1, max(1, attempts) + 1)
LastAttempt(fr) == fr.i >= Max(1, fr.attempts)

\* request_with_retry: if i < attempts: sleep(delay)
SleepsAfter(fr) == fr.i < fr.attempts

\* (variant: the threshold compared with >=)
TooManyFailures_AtThreshold(counter) == counter >= MAX_REQUEST_FAILURES

\* log_check / https_request: escalate on a None result
TooManyFailures(counter) == counter > MAX_REQUEST_FAILURES

\* The locals of request_with_retry and of its caller.  calls, results and
\* sleeps record the attempts made, what each returned and every
\* asyncio.sleep(delay) of the call in progress.
NoFrame ==
  [request_data |-> <<>>, attempts |-> 0, base_delay |-> 0, i |-> 0, delay |-> 0,
   entry |-> "", ret |-> "", calls |-> 0, results |-> <<>>, sleeps |-> <<>>,
   pending |-> <<>>]

NewFrame(entry, req, attempts, base_delay, ret) ==
  [request_data |-> req, attempts |-> attempts, base_delay |-> base_delay,
   i |-> 1, delay |-> base_delay,
   entry |-> entry, ret |-> ret, calls |-> 0, results |-> <<>>, sleeps |-> <<>>,
   pending |-> <<>>]

NoEv ==
  [task |-> "", op |-> "none", entry |-> "", req |-> <<>>, result |-> "",
   error |-> FALSE, returned |-> FALSE, restart |-> "", decoders |-> {},
   published |-> {}, status608 |-> <<>>,
   payload |-> BasePayload, pubs |-> {}, escaped |-> FALSE,
   first_pubs |-> {}, same_state |-> TRUE, partial |-> FALSE,
   exchange |-> NoExchange]

\* A task calls log_check(body) or https_request(body): the first attempt
\* is in flight when the step ends.
Call(t, entry, req, ret) ==
  /\ pc' = [pc EXCEPT ![t] = "request"]
  /\ frame' = [frame EXCEPT ![t] = NewFrame(entry, req, 3, 1, ret)]

\* Where a task continues when its request returns.  The historic loop
\* re-evaluates `while running` without suspending.
ReturnTo(fr) ==
  IF fr.ret = "h_loop" THEN (IF running THEN "h_wait" ELSE "done") ELSE fr.ret

\* restart_bridge up to its asyncio.sleep(restart_delay)
RestartBridge(t, reason) ==
  /\ running' = FALSE
  /\ restart_reason' = [restart_reason EXCEPT ![t] = reason]
  /\ pc' = [pc EXCEPT ![t] = "restart_wait"]

\* A handler that was suspended inside its decode runs to its end.
ResumeHandler(t) ==
  LET fr == frame[t]
      decoders == Dispatch(fr.entry, fr.request_data)
      out == Decode(CHOOSE d \in decoders : TRUE, data_processor, fr.pending[1])
  IN /\ data_processor' = out.dp
     /\ pc' = [pc EXCEPT ![t] = ReturnTo(fr)]
     /\ frame' = [frame EXCEPT ![t] = NoFrame]
     /\ ev' = [NoEv EXCEPT !.task = t, !.op = "resume", !.entry = fr.entry,
                           !.req = fr.request_data, !.decoders = decoders,
                           !.published = out.published, !.returned = TRUE]
     /\ UNCHANGED <<daemon_args, auth, observed, running, request_counter, session, su_delay,
                    exit_status, restart_reason, signalled, devInfoCalls>>

\* The response of the attempt in flight arrives and the task runs to its
\* next suspension point; exchange is what the auth check of the attempt
\* did.
AttemptWith(t, outcome, data, exchange) ==
       LET fr == frame[t]
           req == fr.request_data
           counter == CounterAfter(outcome, req, request_counter)
           fr1 == [fr EXCEPT !.calls = @ + 1,
                             !.results = Append(@, IF outcome = "ok" THEN "data" ELSE "None")]
           decoders == Dispatch(fr.entry, req)
           wrapped == fr.entry \in {"log_check", "https_request"}
           \* the locals of log_check / https_request die when they return
           over == IF wrapped THEN NoFrame ELSE fr1
           \* error: the attempt ended in a logged error (transport error,
           \* non-200 status, undecodable body, failed login, no session)
           base == [NoEv EXCEPT !.task = t, !.op = "attempt", !.entry = fr.entry, !.req = req,
                                !.error = outcome \notin {"ok", "null_json"},
                                !.exchange = exchange]
       IN
       /\ request_counter' = counter
       /\ auth' = IF exchange.made THEN exchange.after ELSE auth
       /\ UNCHANGED <<daemon_args, observed, session, su_delay, exit_status, signalled,
                      devInfoCalls>>
       /\ CASE outcome = "closed" ->
                 \* the exception leaves request_with_retry; log_check and
                 \* https_request catch and log it
                 /\ pc' = [pc EXCEPT ![t] = ReturnTo(fr)]
                 /\ frame' = [frame EXCEPT ![t] = over]
                 /\ ev' = [base EXCEPT !.result = "raised", !.returned = TRUE]
                 /\ UNCHANGED <<running, restart_reason, data_processor>>
            [] outcome = "ok" /\ wrapped /\ "fast" \in decoders /\ CheckAccessDenied(data) ->
                 \* process_fast_poll_data: access denied, nothing is decoded
                 /\ RestartBridge(t, "Access denied")
                 /\ frame' = [frame EXCEPT ![t] = over]
                 /\ ev' = [base EXCEPT !.result = "data", !.returned = TRUE,
                                       !.restart = "Access denied",
                                       !.published = {"info/connection", "info/restart_reason"},
                                       !.status608 = data.status608]
                 /\ UNCHANGED data_processor
            [] outcome = "ok" /\ wrapped /\ ~("fast" \in decoders /\ CheckAccessDenied(data)) ->
                 LET decoder == CHOOSE d \in decoders : TRUE
                     yields == decoders # {} /\ YieldsInDecode(decoder)
                     out == IF decoders = {}
                            THEN Result(data_processor, {}, FALSE)
                            ELSE IF yields
                            THEN Result(BeforeYield(decoder, data_processor, data), {}, FALSE)
                            ELSE Decode(decoder, data_processor, data)
                 IN /\ data_processor' = out.dp
                    /\ pc' = [pc EXCEPT ![t] = IF yields THEN "in_handler" ELSE ReturnTo(fr)]
                    /\ frame' = [frame EXCEPT ![t] =
                                   IF yields THEN [fr1 EXCEPT !.pending = <<data>>] ELSE over]
                    /\ ev' = [base EXCEPT !.result = "data", !.returned = ~yields,
                                          !.partial = yields,
                                          !.decoders = decoders,
                                          !.published = out.published,
                                          !.status608 = IF "608" \in data.keys
                                                        THEN data.status608 ELSE <<>>]
                    /\ UNCHANGED <<running, restart_reason>>
            [] outcome = "ok" /\ ~wrapped ->
                 \* request_with_retry called directly: the payload is returned
                 /\ pc' = [pc EXCEPT ![t] = ReturnTo(fr)]
                 /\ frame' = [frame EXCEPT ![t] = over]
                 /\ ev' = [base EXCEPT !.result = "data", !.returned = TRUE]
                 /\ UNCHANGED <<running, restart_reason, data_processor>>
            [] outcome \notin {"ok", "closed"} /\ ~LastAttempt(fr) ->
                 \* result is None: back off and try again
                 /\ pc' = pc
                 /\ frame' = [frame EXCEPT ![t] =
                       IF SleepsAfter(fr)
                       THEN [fr1 EXCEPT !.i = @ + 1, !.sleeps = Append(@, fr.delay),
                                        !.delay = NextRetryDelay(@)]
                       ELSE [fr1 EXCEPT !.i = @ + 1]]
                 /\ ev' = [base EXCEPT !.result = "None"]
                 /\ UNCHANGED <<running, restart_reason, data_processor>>
            [] outcome \notin {"ok", "closed"} /\ LastAttempt(fr) ->
                 \* every attempt returned None: request_with_retry returns None
                 /\ frame' = [frame EXCEPT ![t] =
                       IF wrapped THEN NoFrame
                       ELSE IF SleepsAfter(fr)
                       THEN [fr1 EXCEPT !.sleeps = Append(@, fr.delay),
                                        !.delay = NextRetryDelay(@)]
                       ELSE fr1]
                 /\ UNCHANGED data_processor
                 /\ IF wrapped /\ TooManyFailures(counter)
                    THEN /\ RestartBridge(t, "Request failures")
                         /\ ev' = [base EXCEPT !.result = "None", !.returned = TRUE,
                                               !.restart = "Request failures",
                                               !.published = {"info/connection", "info/restart_reason"}]
                    ELSE /\ pc' = [pc EXCEPT ![t] = ReturnTo(fr)]
                         /\ ev' = [base EXCEPT !.result = "None", !.returned = TRUE]
                         /\ UNCHANGED <<running, restart_reason>>

\* The scheduler specifications do not follow the auth exchange of an
\* attempt: it either lets the request through or ends it (auth_fail).
Attempt(t) ==
  /\ exit_status = NotExited
  /\ pc[t] \in {"request", "in_handler"}
  /\ IF pc[t] = "in_handler" THEN ResumeHandler(t) ELSE
     \E outcome \in AttemptOutcomes :
     \E data \in (IF outcome = "ok" THEN PayloadsFor(frame[t].request_data) ELSE {BasePayload}) :
       AttemptWith(t, outcome, data, NoExchange)

(***************************************************************************)
(* start_polling and perform_startup_sequence (the main coroutine)         *)
(***************************************************************************)
\* (variant: only the device table is tested)
TablesPresent_DeviceListOnly(dp) == Truthy(dp.device_list)

\* data_processor.device_list and data_processor.brand_list
TablesPresent(dp) == Truthy(dp.device_list) /\ Truthy(dp.brand_list)

\* perform_startup_sequence: delay = min(delay * 2, max_delay)
NextStartupDelay(delay) == Min(delay * 2, STARTUP_MAX_DELAY)

\* (variant: start_polling goes on to its tasks without the seeding poll)
SeedPoll_NoRequest ==
  /\ pc' = [pc EXCEPT ![MainTask] = "sp_spawn"]
  /\ UNCHANGED <<frame, devInfoCalls>>
\* log_check(POLLING_DATA) seeding the first periodic poll
SeedPoll ==
  /\ Call(MainTask, "log_check", POLLING_DATA, "sp_spawn")
  /\ UNCHANGED devInfoCalls

\* (variant: a device-info request that goes back into the retry loop)
RequestDeviceInfo_BackToLoop ==
  LET max_devices == IF data_processor.num_inverters > 0
                     THEN data_processor.num_inverters ELSE MAX_DEVICES_DISCOVERY
  IN /\ devInfoCalls' = devInfoCalls + 1
     /\ Call(MainTask, "https_request", DeviceInfoRequest(max_devices), "su_sleep1")

\* request_device_info
RequestDeviceInfo ==
  LET max_devices == IF data_processor.num_inverters > 0
                     THEN data_processor.num_inverters ELSE MAX_DEVICES_DISCOVERY
  IN /\ devInfoCalls' = devInfoCalls + 1
     /\ Call(MainTask, "https_request", DeviceInfoRequest(max_devices), "su_done")

\* perform_startup_sequence after its while loop (its local delay is dead)
AfterStartupLoop ==
  /\ IF ~running THEN SeedPoll ELSE RequestDeviceInfo
  /\ su_delay' = 0

\* perform_startup_sequence at the head of its while loop
StartupLoopHead(delay) ==
  IF running /\ ~TablesPresent(data_processor)
  THEN /\ Call(MainTask, "log_check", STARTUP_DATA, "su_sleep1")
       /\ su_delay' = delay
       /\ UNCHANGED devInfoCalls
  ELSE AfterStartupLoop

\* start_polling up to its first request
StartPolling ==
  /\ exit_status = NotExited
  /\ pc[MainTask] = "start"
  /\ IF daemon_args.inverter_import
     THEN StartupLoopHead(STARTUP_INITIAL_DELAY)
     ELSE /\ Call(MainTask, "log_check", SIMPLE_STARTUP_DATA, "sp_simple_sleep")
          /\ UNCHANGED <<devInfoCalls, su_delay>>
  /\ ev' = [NoEv EXCEPT !.task = MainTask, !.op = "start_polling"]
  /\ UNCHANGED <<daemon_args, auth, observed, running, request_counter, session, data_processor,
                 exit_status, restart_reason, signalled>>

\* perform_startup_sequence: asyncio.sleep(1) after log_check is over
StartupCheck ==
  /\ exit_status = NotExited
  /\ pc[MainTask] = "su_sleep1"
  /\ IF TablesPresent(data_processor)
     THEN AfterStartupLoop
     ELSE /\ pc' = [pc EXCEPT ![MainTask] = "su_backoff"]
          /\ UNCHANGED <<frame, devInfoCalls, su_delay>>
  /\ ev' = [NoEv EXCEPT !.task = MainTask, !.op = "startup_check"]
  /\ UNCHANGED <<daemon_args, auth, observed, running, request_counter, session, data_processor,
                 exit_status, restart_reason, signalled>>

\* perform_startup_sequence: asyncio.sleep(delay) is over, next iteration
StartupRetry ==
  /\ exit_status = NotExited
  /\ pc[MainTask] = "su_backoff"
  /\ StartupLoopHead(NextStartupDelay(su_delay))
  /\ ev' = [NoEv EXCEPT !.task = MainTask, !.op = "startup_retry"]
  /\ UNCHANGED <<daemon_args, auth, observed, running, request_counter, session, data_processor,
                 exit_status, restart_reason, signalled>>

\* perform_startup_sequence returned after request_device_info
StartupDone ==
  /\ exit_status = NotExited
  /\ pc[MainTask] = "su_done"
  /\ SeedPoll
  /\ ev' = [NoEv EXCEPT !.task = MainTask, !.op = "startup_done"]
  /\ UNCHANGED <<daemon_args, auth, observed, running, request_counter, session, data_processor,
                 su_delay, exit_status, restart_reason, signalled>>

\* stop_solarlog up to `await solar_log_client.close()`
StopSolarlog ==
  /\ running' = FALSE
  /\ session' = IF session = "open" THEN "closed" ELSE session

\* start_polling: asyncio.create_task for every enabled cadence, then
\* `while running: await asyncio.sleep(1)`
SpawnLoops ==
  /\ exit_status = NotExited
  /\ pc[MainTask] \in {"sp_spawn", "sp_simple_sleep"}
  /\ LET created == (IF daemon_args.inverter_import THEN {"fast", "regular"} ELSE {"simple"})
                     \cup (IF daemon_args.historic_data THEN {"historic"} ELSE {})
     IN IF running
        THEN /\ pc' = [t \in Tasks |-> IF t \in created THEN "created"
                                       ELSE IF t = MainTask THEN "wait" ELSE pc[t]]
             /\ UNCHANGED <<running, session>>
        ELSE /\ pc' = [t \in Tasks |-> IF t \in created THEN "created"
                                       ELSE IF t = MainTask THEN "stopping" ELSE pc[t]]
             /\ StopSolarlog
  /\ ev' = [NoEv EXCEPT !.task = MainTask, !.op = "spawn"]
  /\ UNCHANGED <<daemon_args, auth, observed, request_counter, data_processor, frame, su_delay,
                 exit_status, restart_reason, signalled, devInfoCalls>>

\* A restart_bridge whose delay is already over is resumed by the event
\* loop before the main coroutine's one-second timer.
RestartDue == \E t \in LoopTasks : pc[t] = "restart_wait" /\ daemon_args.restart_delay = 0

\* start_polling: the wait loop wakes up with running false; start_polling
\* returns and start_solarlog_bridge calls stop_solarlog
MainStops ==
  /\ exit_status = NotExited
  /\ pc[MainTask] = "wait"
  /\ ~running
  /\ ~RestartDue
  /\ StopSolarlog
  /\ pc' = [pc EXCEPT ![MainTask] = "stopping"]
  /\ ev' = [NoEv EXCEPT !.task = MainTask, !.op = "main_stops"]
  /\ UNCHANGED <<daemon_args, auth, observed, request_counter, data_processor, frame, su_delay,
                 exit_status, restart_reason, signalled, devInfoCalls>>

\* start_solarlog_bridge returns: asyncio.run cancels every other task and
\* the interpreter exits with status 0
MainReturns ==
  /\ exit_status = NotExited
  /\ pc[MainTask] = "stopping"
  /\ session' = "None"
  /\ exit_status' = EXIT_CODE_CLEAN
  /\ pc' = [pc EXCEPT ![MainTask] = "done"]
  /\ ev' = [NoEv EXCEPT !.task = MainTask, !.op = "main_returns"]
  /\ UNCHANGED <<daemon_args, auth, observed, running, request_counter, data_processor, frame,
                 su_delay, restart_reason, signalled, devInfoCalls>>

(***************************************************************************)
(* The cadence loops                                                       *)
(***************************************************************************)
\* The body each polling loop passes to log_check
LoopBody(t) ==
  CASE t = "fast" -> FAST_POLL_DATA
    [] t = "regular" -> POLLING_DATA
    [] t = "simple" -> SIMPLE_POLL_DATA

\* fast_polling_loop / regular_polling_loop / simple_polling_loop: the task
\* starts, or its interval sleep is over, and `while running` is evaluated
LoopIteration(t) ==
  /\ exit_status = NotExited
  /\ t \in {"fast", "regular", "simple"}
  /\ pc[t] \in {"created", "loop_sleep"}
  /\ IF running
     THEN Call(t, "log_check", LoopBody(t), "loop_sleep")
     ELSE /\ pc' = [pc EXCEPT ![t] = "done"]
          /\ UNCHANGED frame
  /\ ev' = [NoEv EXCEPT !.task = t, !.op = "loop"]
  /\ UNCHANGED <<daemon_args, auth, observed, running, request_counter, session, data_processor,
                 su_delay, exit_status, restart_reason, signalled, devInfoCalls>>

\* historic_polling_loop: the task starts and sleeps until the scheduled time
HistoricStart ==
  /\ exit_status = NotExited
  /\ pc["historic"] = "created"
  /\ pc' = [pc EXCEPT !["historic"] = IF running THEN "h_wait" ELSE "done"]
  /\ ev' = [NoEv EXCEPT !.task = "historic", !.op = "loop"]
  /\ UNCHANGED <<daemon_args, auth, observed, running, request_counter, session, data_processor,
                 frame, su_delay, exit_status, restart_reason, signalled, devInfoCalls>>

\* (variant: the full request whatever the model)
HistoricRun_AlwaysFull ==
  /\ exit_status = NotExited
  /\ pc["historic"] = "h_wait"
  /\ IF ~running
     THEN /\ pc' = [pc EXCEPT !["historic"] = "done"]
          /\ UNCHANGED frame
     ELSE Call("historic", "log_check", HISTORIC_DATA, "h_sleep2")
  /\ ev' = [NoEv EXCEPT !.task = "historic", !.op = "historic_run"]
  /\ UNCHANGED <<daemon_args, auth, observed, running, request_counter, session, data_processor,
                 su_delay, exit_status, restart_reason, signalled, devInfoCalls>>
\* historic_polling_loop: the scheduled time has come
HistoricRun ==
  /\ exit_status = NotExited
  /\ pc["historic"] = "h_wait"
  /\ IF ~running
     THEN /\ pc' = [pc EXCEPT !["historic"] = "done"]
          /\ UNCHANGED frame
     ELSE Call("historic", "log_check",
               IF data_processor.solar_log_model = Some(500)
               THEN HISTORIC_DATA_500 ELSE HISTORIC_DATA,
               "h_sleep2")
  /\ ev' = [NoEv EXCEPT !.task = "historic", !.op = "historic_run"]
  /\ UNCHANGED <<daemon_args, auth, observed, running, request_counter, session, data_processor,
                 su_delay, exit_status, restart_reason, signalled, devInfoCalls>>

\* historic_polling_loop: asyncio.sleep(2) is over, fetch /months.json
HistoricMonths ==
  /\ exit_status = NotExited
  /\ pc["historic"] = "h_sleep2"
  /\ Call("historic", "https_request", MONTHS_JSON, "h_sleep5")
  /\ ev' = [NoEv EXCEPT !.task = "historic", !.op = "historic_months"]
  /\ UNCHANGED <<daemon_args, auth, observed, running, request_counter, session, data_processor,
                 su_delay, exit_status, restart_reason, signalled, devInfoCalls>>

\* historic_polling_loop: asyncio.sleep(5) is over, fetch /years.json
HistoricYears ==
  /\ exit_status = NotExited
  /\ pc["historic"] = "h_sleep5"
  /\ Call("historic", "https_request", YEARS_JSON, "h_loop")
  /\ ev' = [NoEv EXCEPT !.task = "historic", !.op = "historic_years"]
  /\ UNCHANGED <<daemon_args, auth, observed, running, request_counter, session, data_processor,
                 su_delay, exit_status, restart_reason, signalled, devInfoCalls>>

(***************************************************************************)
(* restart_bridge, stop_solarlog and the signal handler                    *)
(***************************************************************************)
\* restart_bridge: asyncio.sleep(restart_delay) is over; stop_solarlog runs
\* up to `await solar_log_client.close()`.  While the main coroutine sleeps
\* in its wait loop its timer (at most one second, armed earlier) comes
\* before the timer of a positive restart delay.
RestartWakes(t) ==
  /\ exit_status = NotExited
  /\ pc[t] = "restart_wait"
  /\ \/ t = MainTask
     \/ daemon_args.restart_delay = 0
     \/ pc[MainTask] # "wait"
  /\ StopSolarlog
  /\ pc' = [pc EXCEPT ![t] = "restart_stop"]
  /\ ev' = [NoEv EXCEPT !.task = t, !.op = "restart_wakes"]
  /\ UNCHANGED <<daemon_args, auth, observed, request_counter, data_processor, frame, su_delay,
                 exit_status, restart_reason, signalled, devInfoCalls>>

\* restart_bridge: exit(EXIT_CODE_RESTART_REQUIRED) raises SystemExit, which
\* no `except Exception` catches and which ends asyncio.run
RestartExits(t) ==
  /\ exit_status = NotExited
  /\ pc[t] = "restart_stop"
  /\ session' = "None"
  /\ exit_status' = EXIT_CODE_RESTART_REQUIRED
  /\ pc' = [pc EXCEPT ![t] = "done"]
  /\ ev' = [NoEv EXCEPT !.task = t, !.op = "restart_exits"]
  /\ UNCHANGED <<daemon_args, auth, observed, running, request_counter, data_processor, frame,
                 su_delay, restart_reason, signalled, devInfoCalls>>

\* shutdown(signum, frame): the handler of SIGINT and SIGTERM
Shutdown ==
  /\ exit_status = NotExited
  /\ ~signalled
  /\ pc[MainTask] # "idle"
  /\ running' = FALSE
  /\ signalled' = TRUE
  /\ ev' = [NoEv EXCEPT !.op = "shutdown"]
  /\ UNCHANGED <<daemon_args, auth, observed, request_counter, session, data_processor, pc, frame,
                 su_delay, exit_status, restart_reason, devInfoCalls>>

(***************************************************************************)
(* The bridge                                                              *)
(***************************************************************************)
\* The configurations explored: historic collection is explored next to
\* the simple polling loop, full polling without it.
Configurations ==
  {c \in [inverter_import : BOOLEAN, historic_data : BOOLEAN, credentials : BOOLEAN,
          restart_delay : 0..MaxRestartDelay] :
     c.historic_data => ~c.inverter_import}

\* start_solarlog_bridge has built the client, the publisher and the
\* processor and is about to await start_polling.  A client with
\* credentials is followed in AuthSpec: to the scheduler its failed auth
\* check ends an attempt exactly as http_error does.
Init ==
  /\ daemon_args \in {c \in Configurations : ~c.credentials}
  /\ running = TRUE
  /\ request_counter = 0
  /\ session = "open"
  /\ data_processor = NewDataProcessor
  /\ pc = [t \in Tasks |-> IF t = MainTask THEN "start" ELSE "idle"]
  /\ frame = [t \in Tasks |-> NoFrame]
  /\ su_delay = 0
  /\ exit_status = NotExited
  /\ restart_reason = [t \in Tasks |-> ""]
  /\ signalled = FALSE
  /\ devInfoCalls = 0
  /\ auth = NewAuth
  /\ observed = NoObservation
  /\ ev = NoEv

\* A caller of request_with_retry with arbitrary arguments: the first
\* attempt is in flight.
BaseDelays == {1, 2, 16, 40}
RetryInit ==
  /\ daemon_args \in {c \in Configurations : ~c.inverter_import /\ ~c.historic_data
                                               /\ c.restart_delay = 0}
  /\ running = TRUE
  /\ request_counter = 0
  /\ session = "open"
  /\ data_processor = NewDataProcessor
  /\ pc = [t \in Tasks |-> IF t = Harness THEN "request" ELSE "idle"]
  /\ \E attempts \in 0..MaxAttempts, base_delay \in BaseDelays,
        req \in {FAST_POLL_DATA, MONTHS_JSON} :
       frame = [t \in Tasks |-> IF t = Harness
                                THEN NewFrame("request_with_retry", req, attempts,
                                              base_delay, "returned")
                                ELSE NoFrame]
  /\ su_delay = 0
  /\ exit_status = NotExited
  /\ restart_reason = [t \in Tasks |-> ""]
  /\ signalled = FALSE
  /\ devInfoCalls = 0
  /\ auth = NewAuth
  /\ observed = NoObservation
  /\ ev = NoEv

RetryAttempt == Attempt(Harness)
RetryNext == RetryAttempt
RetrySpec == RetryInit /\ [][RetryNext]_vars

(***************************************************************************)
(* The client's authentication, followed call by call: a caller logs in    *)
(* (start_solarlog_bridge), probes the login status (log_check without a   *)
(* body) and polls through log_check, whose attempts run the auth check.   *)
(***************************************************************************)
AuthInit ==
  /\ daemon_args \in {c \in Configurations : ~c.inverter_import /\ ~c.historic_data
                                               /\ c.restart_delay = 0}
  /\ running = TRUE
  /\ request_counter = 0
  /\ session = "open"
  /\ data_processor = NewDataProcessor
  /\ pc = [t \in Tasks |-> "idle"]
  /\ frame = [t \in Tasks |-> NoFrame]
  /\ su_delay = 0
  /\ exit_status = NotExited
  /\ restart_reason = [t \in Tasks |-> ""]
  /\ signalled = FALSE
  /\ devInfoCalls = 0
  /\ auth = NewAuth
  /\ observed = NoObservation
  /\ ev = NoEv

\* A direct call of login or check_login_status
AuthCallOf(op, x) ==
  /\ pc[Harness] = "idle"
  /\ running
  /\ x.after.login_failures <= MaxLoginFailures
  /\ auth' = x.after
  /\ ev' = [NoEv EXCEPT !.task = Harness, !.op = op, !.exchange = x]
  /\ UNCHANGED <<daemon_args, observed, running, request_counter, session, data_processor, pc,
                 frame, su_delay, exit_status, restart_reason, signalled, devInfoCalls>>

\* Every way check_login_status can go: the login answer matters only when
\* the probe made it log in
StatusChecks(a, user_pass, probes, logins) ==
  UNION {LET x == CheckLoginStatus(a, user_pass, probe, NoResponse)
         IN IF x.logins = 0 THEN {x}
            ELSE {CheckLoginStatus(a, user_pass, probe, resp) : resp \in logins} :
         probe \in probes}

\* start_solarlog_bridge: if user_pass: await solar_log_client.login()
AuthLogin ==
  /\ daemon_args.credentials
  /\ \E x \in {Login(auth, daemon_args.credentials, resp) : resp \in LoginResponses} :
       AuthCallOf("login", x)

\* log_check(None): return await solar_log_client.check_login_status()
AuthCheck ==
  \E x \in StatusChecks(auth, daemon_args.credentials, ProbeResponses, LoginResponses) :
    AuthCallOf("check_login_status", x)

\* A polling loop calls log_check(POLLING_DATA)
AuthPoll ==
  /\ pc[Harness] = "idle"
  /\ running
  /\ Call(Harness, "log_check", POLLING_DATA, "idle")
  /\ ev' = [NoEv EXCEPT !.task = Harness, !.op = "loop"]
  /\ UNCHANGED <<daemon_args, auth, observed, running, request_counter, session, data_processor,
                 su_delay, exit_status, restart_reason, signalled, devInfoCalls>>

\* request_with_auth_check: the auth check, then make_request if it passed
RequestWithAuthCheck(a, user_pass, probes, logins) ==
  IF user_pass
  THEN StatusChecks(a, user_pass, probes, logins)
  ELSE {Exchange(a, a, TRUE, <<>>, 0, NoResponse, NoResponse)}

AuthAttemptFrom(probes, logins) ==
  /\ exit_status = NotExited
  /\ pc[Harness] = "request"
  /\ \E x \in RequestWithAuthCheck(auth, daemon_args.credentials, probes, logins) :
          /\ x.after.login_failures <= MaxLoginFailures
          /\ IF x.ok
             THEN \E outcome \in AttemptOutcomes \ {"auth_fail"} :
                  \E data \in (IF outcome = "ok" THEN PayloadsFor(frame[Harness].request_data)
                                ELSE {BasePayload}) :
                    AttemptWith(Harness, outcome, data, x)
             ELSE AttemptWith(Harness, "auth_fail", BasePayload, x)

AuthAttempt == AuthAttemptFrom(ProbeResponses, LoginResponses)

AuthNext ==
  \/ AuthLogin
  \/ AuthCheck
  \/ AuthPoll
  \/ AuthAttempt

AuthSpec == AuthInit /\ [][AuthNext]_vars

\* One answer of every kind the client tells apart
KindsOfLoginResponse ==
  {r \in LoginResponses : r.text \in {<<>>, <<"SolarLog=", "abc">>}}

KindsOfProbeResponse ==
  {r \in ProbeResponses : r.text \in {<<>>, <<"0">>}}

AuthFairAttempt == AuthAttemptFrom(KindsOfProbeResponse, KindsOfLoginResponse)

\* The event loop runs a task that is ready: the loop keeps polling and
\* every request in flight ends (HTTP_TIMEOUT_SECONDS).
AuthFairness == WF_vars(AuthPoll) /\ WF_vars(AuthFairAttempt)

AuthFairNext ==
  \/ AuthPoll
  \/ AuthFairAttempt

\* The polling loop of a client with credentials, after any number of
\* failed logins
AuthFairInit ==
  /\ daemon_args \in {c \in Configurations : ~c.inverter_import /\ ~c.historic_data
                                               /\ c.restart_delay = 0 /\ c.credentials}
  /\ running = TRUE
  /\ request_counter = 0
  /\ session = "open"
  /\ data_processor = NewDataProcessor
  /\ pc = [t \in Tasks |-> "idle"]
  /\ frame = [t \in Tasks |-> NoFrame]
  /\ su_delay = 0
  /\ exit_status = NotExited
  /\ restart_reason = [t \in Tasks |-> ""]
  /\ signalled = FALSE
  /\ devInfoCalls = 0
  /\ auth \in {[NewAuth EXCEPT !.login_failures = n] : n \in {0, MaxLoginFailures}}
  /\ observed = NoObservation
  /\ ev = NoEv

AuthFairSpec == AuthFairInit /\ [][AuthFairNext]_vars /\ AuthFairness

Request == \E t \in Tasks \ {Harness} : Attempt(t)
PollingLoop == \E t \in {"fast", "regular", "simple"} : LoopIteration(t)
RestartWake == \E t \in Tasks \ {Harness} : RestartWakes(t)
RestartExit == \E t \in Tasks \ {Harness} : RestartExits(t)

Next ==
  \/ StartPolling
  \/ StartupCheck
  \/ StartupRetry
  \/ StartupDone
  \/ SpawnLoops
  \/ MainStops
  \/ MainReturns
  \/ Request
  \/ PollingLoop
  \/ HistoricStart
  \/ HistoricRun
  \/ HistoricMonths
  \/ HistoricYears
  \/ RestartWake
  \/ RestartExit
  \/ Shutdown

Spec == Init /\ [][Next]_vars

(***************************************************************************)
(* The decoders on their own: the handlers of __main__ are applied, one    *)
(* response after the other, to payloads drawn from the sets below.        *)
(***************************************************************************)
\* Records of table 739 under code 1: a well-formed inverter, a battery,
\* bitmasks that are no power of two or out of range, a record that is too
\* short, one whose brand index is a nested array, one that is no array.
RecordOf(brand, type, bitmask) ==
  DeviceRecord(<<brand, JStr(type), JInt(0), JInt(0), JInt(0), JInt(bitmask)>>)
DecodeRecords ==
  {RecordOf(JInt(0), "SolarMax", 1), RecordOf(JInt(0), "Akku", 16),
   RecordOf(JInt(0), "SolarMax", 17), RecordOf(JInt(0), "SolarMax", 1024),
   DeviceRecord(<<JStr("x")>>), RecordOf(JList, "SolarMax", 1), NotAnArray}
METER_RECORD == RecordOf(JInt(0), "Meter", 4)
DecodeDeviceLists ==
  {EmptyTable} \cup {(1 :> r) @@ (2 :> METER_RECORD) : r \in DecodeRecords}
InfoCodes == {1, 2, 3}

\* Status tables 740 (entry i + 1 is the status under key str(i)): empty,
\* "Err" before, between and after valid entries, a missing index, and a
\* table with more valid entries than the scan reads.
SCAN_LIMIT == 100
DecodeStatusTables ==
  {<<>>, <<"Err", "OK">>, <<"OK", "Err", "OK">>, <<"OK", "OK", "Err">>,
   (1 :> "OK") @@ (3 :> "OK"), [j \in 1..(SCAN_LIMIT + 1) |-> "OK"]}

DecodeStartupPayloads ==
  {[BasePayload EXCEPT !.keys = {"739", "744", "740", "800"}, !.t739 = a,
                       !.t744 = SAMPLE_BRAND_LIST, !.t740 = [j \in 1..MaxDev |-> "OK"],
                       !.model = m] :
     a \in DecodeDeviceLists, m \in ModelTexts}
\* Blocks 447 as json.loads returns them: a name with a space at position
\* 0, an empty name next to a name at position 3, names at positions 9 and
\* 10, an empty object, a value that is no object
DecodeSwitchGroupBlocks ==
  {SAMPLE_SWITCH_GROUPS,
   JObj((KeyStr(0) :> SwitchGroup(<<>>)) @@ (KeyStr(3) :> SwitchGroup(<<"Heater">>))),
   JObj((KeyStr(9) :> SwitchGroup(<<"A">>)) @@ (KeyStr(10) :> SwitchGroup(<<"B">>))),
   JObj(<<>>), NotADict}
DecodeDiscoveryPayloads ==
  {[BasePayload EXCEPT !.keys = {"740"}, !.t740 = t] : t \in DecodeStatusTables}
  \cup {[BasePayload EXCEPT !.keys = {"447"}, !.t447 = b] : b \in DecodeSwitchGroupBlocks}

DecodeDeviceInfoPayloads ==
  UNION {{[BasePayload EXCEPT !.keys = {"141"}, !.idx141 = ix, !.codes141 = c] :
            c \in [ix -> InfoCodes]} :
         ix \in SUBSET (0..(MaxDev - 1))}

\* Fast payloads: production and consumption as numbers, null, or a text
DecodeFastPayloads ==
  {[BasePayload EXCEPT !.keys = {"780", "781"}, !.p780 = a, !.p781 = b] :
     a \in {JInt(500), JInt(300), JNull, JStr("x")}, b \in {JInt(0), JInt(300)}}

\* Periodic payloads: the 801/170 summary with fields absent, null, zero
\* or positive, with or without today's entry of table 778
DecodePeriodicPayloads ==
  UNION {{[BasePayload EXCEPT !.keys = k, !.j101 = a, !.j110 = b, !.j105 = c, !.j107 = d,
                              !.sc_today = e] :
            a \in {JAbsent, JInt(0)}, b \in {JAbsent, JInt(300)},
            c \in {JAbsent, JInt(1000)}, d \in {JAbsent, JNull},
            e \in (IF "778" \in k THEN {JInt(500)} ELSE {JAbsent})} :
         k \in {{"801"}, {"778", "801"}}}

\* Periodic payloads with the rows of table 778 for today and yesterday
\* present or not, and the yields of 801/170 absent or positive
DecodeSelfConsPayloads ==
  {[BasePayload EXCEPT !.keys = {"778", "801"}, !.j105 = a, !.j106 = b,
                       !.sc_today = c, !.sc_yesterday = d] :
     a \in {JAbsent, JInt(3)}, b \in {JAbsent, JInt(2000)},
     c \in {JAbsent, JInt(1), JInt(500)}, d \in {JAbsent, JInt(3), JInt(500)}}

\* The figures a decode published from a row of yesterday, kept until the
\* next such row
YESTERDAY_TOPICS == {"SelfCons/selfconsyesterday", "SelfCons/selfconsratioyesterday"}
SeenYesterday(seen, decoder, data, out) ==
  IF decoder = "periodic" /\ "778" \in data.keys /\ data.sc_yesterday.t # "absent"
  THEN {q \in out.pubs : q.topic \in YESTERDAY_TOPICS}
  ELSE seen
\* What a decode adds to the history: those figures, and the yields the
\* processor held when the decode began
Observe(decoder, data, out) ==
  [seen_yesterday |-> SeenYesterday(observed.seen_yesterday, decoder, data, out),
   yields |-> <<data_processor.last_yield_day, data_processor.last_yield_yesterday>>]

\* Aggregate tables: empty, one row, the two sample rows, three rows, a
\* row without consumption, a row that is too short
DecodeTables ==
  {<<>>, <<(<<2, 120, 90, 15>>)>>, SAMPLE_ROWS,
   <<(<<0, 90, 70, 5>>)>> \o SAMPLE_ROWS,
   <<(<<1, 100, 0, 10>>), (<<2, 120, 90, 15>>)>>,
   <<(<<1, 100, 80, 10>>), (<<2, 120>>)>>}
DecodeHistoricPayloads ==
  {[BasePayload EXCEPT !.keys = {"854", "877"}, !.t877 = t] : t \in DecodeTables}
    \cup {[BasePayload EXCEPT !.keys = {"854", "878"}, !.t878 = t] : t \in DecodeTables}
DecodeArrayPayloads == {[BasePayload EXCEPT !.keys = {"rows"}, !.rows = t] : t \in DecodeTables}

\* The handlers that fill the topology and those that publish metrics
HandlerFamily(decoder) ==
  IF decoder \in {"startup", "device_info"} THEN "topology" ELSE "metrics"

DecodeInit ==
  /\ daemon_args \in {c \in Configurations : c.inverter_import /\ ~c.credentials
                                               /\ c.restart_delay = 0}
  /\ running = TRUE
  /\ request_counter = 0
  /\ session = "open"
  /\ data_processor = NewDataProcessor
  /\ \E family \in {"topology", "discovery", "metrics", "selfcons", "historic"} :
       pc = [t \in Tasks |-> IF t = Harness THEN family ELSE "idle"]
  /\ frame = [t \in Tasks |-> NoFrame]
  /\ su_delay = 0
  /\ exit_status = NotExited
  /\ restart_reason = [t \in Tasks |-> ""]
  /\ signalled = FALSE
  /\ devInfoCalls = 0
  /\ auth = NewAuth
  /\ observed = NoObservation
  /\ ev = NoEv

\* A response is handed to the handler `decoder`
HandleIn(family, decoder, data) ==
  LET out == Decode(decoder, data_processor, data)
  IN /\ pc[Harness] = family
     /\ data_processor' = out.dp
     /\ ev' = [NoEv EXCEPT !.task = Harness, !.op = "decode", !.decoders = {decoder},
                           !.published = out.published, !.payload = data,
                           !.pubs = out.pubs, !.escaped = out.escaped]
     /\ observed' = Observe(decoder, data, out)
     /\ UNCHANGED <<daemon_args, auth, running, request_counter, session, pc, frame, su_delay,
                    exit_status, restart_reason, signalled, devInfoCalls>>

Handle(decoder, data) == HandleIn(HandlerFamily(decoder), decoder, data)

DecodeStartup == \E data \in DecodeStartupPayloads : Handle("startup", data)
DecodeDiscovery ==
  \E data \in DecodeDiscoveryPayloads : HandleIn("discovery", "startup", data)
DecodeDeviceInfo == \E data \in DecodeDeviceInfoPayloads : Handle("device_info", data)
DecodeFast == \E data \in DecodeFastPayloads : Handle("fast", data)
DecodePeriodic == \E data \in DecodePeriodicPayloads : Handle("periodic", data)
DecodeSelfCons ==
  \E data \in DecodeSelfConsPayloads : HandleIn("selfcons", "periodic", data)
DecodeHistoric ==
  \E data \in DecodeHistoricPayloads : HandleIn("historic", "historic", data)
DecodeMonths == \E data \in DecodeArrayPayloads : HandleIn("historic", "months", data)
DecodeYears == \E data \in DecodeArrayPayloads : HandleIn("historic", "years", data)

\* The device answers the next poll with the same payload
DecodeAgain ==
  /\ ev.op = "decode"
  /\ LET decoder == CHOOSE d \in ev.decoders : TRUE
         out == Decode(decoder, data_processor, ev.payload)
     IN /\ data_processor' = out.dp
        /\ ev' = [ev EXCEPT !.op = "decode_again", !.pubs = out.pubs,
                            !.published = out.published, !.escaped = out.escaped,
                            !.first_pubs = ev.pubs,
                            !.same_state = (out.dp = data_processor)]
        /\ observed' = Observe(decoder, ev.payload, out)
  /\ UNCHANGED <<daemon_args, auth, running, request_counter, session, pc, frame, su_delay,
                 exit_status, restart_reason, signalled, devInfoCalls>>

DecodeNext ==
  \/ DecodeStartup
  \/ DecodeDiscovery
  \/ DecodeDeviceInfo
  \/ DecodeFast
  \/ DecodePeriodic
  \/ DecodeSelfCons
  \/ DecodeHistoric
  \/ DecodeMonths
  \/ DecodeYears
  \/ DecodeAgain

DecodeSpec == DecodeInit /\ [][DecodeNext]_vars

\* Full polling without signals, under the scheduling the event loop
\* guarantees: every network call ends (HTTP_TIMEOUT_SECONDS), every sleep
\* ends, and a task that is ready to run is run.
FairInit ==
  /\ Init
  /\ daemon_args.inverter_import
  /\ ~daemon_args.credentials

FairNext ==
  \/ StartPolling
  \/ StartupCheck
  \/ StartupRetry
  \/ StartupDone
  \/ SpawnLoops
  \/ MainStops
  \/ MainReturns
  \/ Request
  \/ PollingLoop
  \/ RestartWake
  \/ RestartExit

Fairness ==
  /\ WF_vars(StartPolling)
  /\ WF_vars(StartupCheck)
  /\ WF_vars(StartupRetry)
  /\ WF_vars(StartupDone)
  /\ WF_vars(SpawnLoops)
  /\ WF_vars(MainStops)
  /\ WF_vars(MainReturns)
  /\ \A t \in {MainTask, "fast", "regular"} :
       /\ WF_vars(Attempt(t))
       /\ WF_vars(RestartWakes(t))
       /\ WF_vars(RestartExits(t))
  /\ \A t \in {"fast", "regular"} : WF_vars(LoopIteration(t))

FairSpec == FairInit /\ [][FairNext]_vars /\ Fairness

(***************************************************************************)
(* Historic collection next to full polling: the startup sequence stores   *)
(* the model the historic run looks at.  The signal handler is followed in *)
(* Spec.                                                                   *)
(***************************************************************************)
HistoricInit ==
  /\ daemon_args = [inverter_import |-> TRUE, historic_data |-> TRUE,
                    credentials |-> FALSE, restart_delay |-> 0]
  /\ running = TRUE
  /\ request_counter = 0
  /\ session = "open"
  /\ data_processor = NewDataProcessor
  /\ pc = [t \in Tasks |-> IF t = MainTask THEN "start" ELSE "idle"]
  /\ frame = [t \in Tasks |-> NoFrame]
  /\ su_delay = 0
  /\ exit_status = NotExited
  /\ restart_reason = [t \in Tasks |-> ""]
  /\ signalled = FALSE
  /\ devInfoCalls = 0
  /\ auth = NewAuth
  /\ observed = NoObservation
  /\ ev = NoEv

HistoricNext ==
  \/ StartPolling
  \/ StartupCheck
  \/ StartupRetry
  \/ StartupDone
  \/ SpawnLoops
  \/ MainStops
  \/ MainReturns
  \/ Request
  \/ PollingLoop
  \/ HistoricStart
  \/ HistoricRun
  \/ HistoricMonths
  \/ HistoricYears
  \/ RestartWake
  \/ RestartExit

HistoricSpec == HistoricInit /\ [][HistoricNext]_vars

(***************************************************************************)
(* main: parse_args, parse_config and start_solarlog_bridge.  The          *)
(* configuration is the argparse namespace; a latitude or longitude is     *)
(* written in whole degrees, an option that was not given is None.         *)
(***************************************************************************)
\* parse_args without any option: the defaults of the parser
DefaultArgs ==
  [inverter_import |-> TRUE, historic_data |-> FALSE, credentials |-> FALSE,
   restart_delay |-> 0,
   mqtt_port |-> 1883, solarlog_port |-> 80,
   poll_interval_current |-> 30, poll_interval_periodic |-> 300,
   historic_hour |-> 0, historic_minute |-> 0,
   forecast_enabled |-> FALSE, forecast_latitude |-> None, forecast_longitude |-> None,
   forecast_declination |-> 30, forecast_azimuth |-> 180,
   mqtt_tls_version |-> Some("TLSv1.2"), mqtt_verify_mode |-> Some("CERT_REQUIRED")]

\* Values an option or a key of the config file can be given
OptionValues ==
  [mqtt_port |-> {0, 8883, 65536}, solarlog_port |-> {0, 8080},
   poll_interval_current |-> {0, 10}, poll_interval_periodic |-> {-1, 60},
   historic_hour |-> {23, 24}, historic_minute |-> {59, 60},
   forecast_enabled |-> {TRUE},
   forecast_latitude |-> {Some(48), Some(91)}, forecast_longitude |-> {Some(-181), Some(11)},
   forecast_declination |-> {91}, forecast_azimuth |-> {361},
   mqtt_tls_version |-> {Some("TLSv1.3")}, mqtt_verify_mode |-> {Some("CERT_ANY")}]

\* setattr(daemon_args, key, value) for every key given
SetAttrs(ns, given) == [k \in DOMAIN ns |-> IF k \in DOMAIN given THEN given[k] ELSE ns[k]]

\* One option or key, and the forecast switched on next to a coordinate
Settings ==
  {<<>>}
  \cup UNION {{(k :> v) : v \in OptionValues[k]} : k \in DOMAIN OptionValues}
  \cup {("forecast_enabled" :> TRUE) @@ ("forecast_latitude" :> lat)
          @@ ("forecast_longitude" :> lon) :
          lat \in OptionValues["forecast_latitude"],
          lon \in OptionValues["forecast_longitude"]}

\* parse_args: the namespaces a command line can produce
CommandLines == {SetAttrs(DefaultArgs, given) : given \in Settings}

\* The config file: absent, or a JSON object with some of the keys
NoFile == [present |-> FALSE, data |-> <<>>]
ConfigFiles == {NoFile} \cup {[present |-> TRUE, data |-> d] : d \in Settings}

ALLOWED_TLS == {"TLSv1", "TLSv1.1", "TLSv1.2"}
ALLOWED_VERIFY == {"CERT_NONE", "CERT_OPTIONAL", "CERT_REQUIRED"}

\* _in_range
InRange(val, lo, hi) == lo <= val /\ val <= hi

\* validate_config up to its first raise: TRUE when it raises
ValidateRaises(ns) ==
  \/ ~InRange(ns.mqtt_port, 1, 65535)
  \/ ~InRange(ns.solarlog_port, 1, 65535)
  \/ ns.poll_interval_current <= 0
  \/ ns.poll_interval_periodic <= 0
  \/ ~InRange(ns.historic_hour, 0, 23)
  \/ ~InRange(ns.historic_minute, 0, 59)
  \/ /\ ns.forecast_enabled
     /\ \/ IsNone(ns.forecast_latitude) \/ IsNone(ns.forecast_longitude)
        \/ ~InRange(ns.forecast_latitude[1], -90, 90)
        \/ ~InRange(ns.forecast_longitude[1], -180, 180)
        \/ ~InRange(ns.forecast_declination, 0, 90)
        \/ ~InRange(ns.forecast_azimuth, 0, 360)

\* validate_config past its checks: the tolerant fields are cleared
Normalised(ns) ==
  [ns EXCEPT !.mqtt_tls_version =
               IF @ # None /\ @[1] \notin ALLOWED_TLS THEN None ELSE @,
             !.mqtt_verify_mode =
               IF @ # None /\ @[1] \notin ALLOWED_VERIFY THEN None ELSE @]

\* parse_config: without a file it returns at once; with one it sets the
\* keys, validates, and its outer `except Exception` logs what was raised
ConfigOutcome(ns, file) ==
  LET set == SetAttrs(ns, file.data)
  IN IF ~file.present THEN [ns |-> ns, raised |-> FALSE]
     ELSE IF ValidateRaises(set) THEN [ns |-> set, raised |-> TRUE]
     ELSE [ns |-> Normalised(set), raised |-> FALSE]

\* main has run parse_args
ConfigInit ==
  /\ daemon_args \in CommandLines
  /\ running = TRUE
  /\ request_counter = 0
  /\ session = "None"
  /\ data_processor = NewDataProcessor
  /\ pc = [t \in Tasks |-> IF t = MainTask THEN "parse_config" ELSE "idle"]
  /\ frame = [t \in Tasks |-> NoFrame]
  /\ su_delay = 0
  /\ exit_status = NotExited
  /\ restart_reason = [t \in Tasks |-> ""]
  /\ signalled = FALSE
  /\ devInfoCalls = 0
  /\ auth = NewAuth
  /\ observed = NoObservation
  /\ ev = NoEv

\* main: parse_config()
ParseConfig ==
  /\ exit_status = NotExited
  /\ pc[MainTask] = "parse_config"
  /\ \E file \in ConfigFiles :
       LET out == ConfigOutcome(daemon_args, file)
       IN /\ daemon_args' = out.ns
          /\ pc' = [pc EXCEPT ![MainTask] = "bridge"]
          /\ ev' = [NoEv EXCEPT !.task = MainTask, !.op = "parse_config",
                                !.error = out.raised,
                                !.result = IF file.present THEN "file" ELSE "no file"]
  /\ UNCHANGED <<auth, observed, running, request_counter, session, data_processor, frame,
                 su_delay, exit_status, restart_reason, signalled, devInfoCalls>>

\* main: asyncio.run(start_solarlog_bridge()) up to `await start_polling()`:
\* the client, the publisher and the processor are built
StartSolarlogBridge ==
  /\ exit_status = NotExited
  /\ pc[MainTask] = "bridge"
  /\ session' = "open"
  /\ data_processor' = NewDataProcessor
  /\ pc' = [pc EXCEPT ![MainTask] = "start"]
  /\ ev' = [NoEv EXCEPT !.task = MainTask, !.op = "start_solarlog_bridge"]
  /\ UNCHANGED <<daemon_args, auth, observed, running, request_counter, frame, su_delay,
                 exit_status, restart_reason, signalled, devInfoCalls>>

ConfigNext ==
  \/ ParseConfig
  \/ StartSolarlogBridge
  \/ StartPolling

ConfigSpec == ConfigInit /\ [][ConfigNext]_vars

(***************************************************************************)
(* Properties                                                              *)
(***************************************************************************)
RestartEntered == \E t \in Tasks : restart_reason[t] # ""
Exited == exit_status # NotExited
WrappedAttempt == ev.op = "attempt" /\ ev.entry \in {"log_check", "https_request"}

\* C1: whenever restart_bridge has been entered (and no signal interfered),
\* the process terminates with EXIT_CODE_RESTART_REQUIRED, never with the
\* clean status, from the main path as well as from a cadence task and for
\* every restart delay.
C1_RestartExitsWithRestartStatus ==
  (RestartEntered /\ ~signalled /\ Exited) => exit_status = EXIT_CODE_RESTART_REQUIRED

\* C2: if from some point on every request attempt fails (timeout, non-200
\* status or undecodable body) while the polling loops keep issuing
\* requests, restart_bridge is eventually invoked.
C2_SustainedFailuresRestart ==
  (/\ <>[](ev.op = "attempt" => ev.error)
   /\ []<>(ev.op = "attempt" /\ ev.task \in {"fast", "regular"}))
    => <>RestartEntered

\* C3: log_check and https_request call restart_bridge("Request failures")
\* exactly when request_with_retry returned None and request_counter > 4 at
\* that moment.
C3_RestartIffNoneAndOverThreshold ==
  (ev.restart = "Request failures")
    <=> (WrappedAttempt /\ ev.returned /\ ev.result = "None" /\ request_counter > 4)

C3_Witness ==
  /\ ev.restart = "Request failures"
  /\ request_counter > 4
  /\ pc[ev.task] = "restart_wait"

\* C4: request_with_retry makes at least one and at most `attempts` calls
\* (one call when attempts < 1), returns the first non-None payload without
\* a further attempt, and returns None iff every attempt returned None.
C4_RetryReturnsFirstPayload ==
  LET fr == frame[Harness]
      n == Len(fr.results)
  IN /\ fr.calls = n
     /\ n <= (IF fr.attempts >= 1 THEN fr.attempts ELSE 1)
     /\ \A k \in 1..(n - 1) : fr.results[k] = "None"
     /\ pc[Harness] = "request" => \A k \in 1..n : fr.results[k] = "None"
     /\ pc[Harness] = "returned" =>
          /\ n >= 1
          /\ ev.result = fr.results[n]
          /\ ev.result = "None" <=> \A k \in 1..n : fr.results[k] = "None"
          /\ ev.result = "None" => n = (IF fr.attempts >= 1 THEN fr.attempts ELSE 1)

C4_Witness ==
  /\ pc[Harness] = "returned"
  /\ frame[Harness].attempts = 3
  /\ frame[Harness].results = <<"None", "data">>

RECURSIVE Pow2(_)
Pow2(n) == IF n = 0 THEN 1 ELSE 2 * Pow2(n - 1)

\* C5: when all attempts fail there are exactly attempts-1 sleeps, the k-th
\* lasting min(base_delay * 2^(k-1), 30) seconds, none after the final
\* attempt, and no sleep exceeds 30 seconds for any base_delay.
C5_BackoffSleepsCapped ==
  LET fr == frame[Harness]
  IN (pc[Harness] = "returned" /\ ev.result = "None" /\ fr.attempts >= 1) =>
       /\ Len(fr.sleeps) = fr.attempts - 1
       /\ \A k \in 1..Len(fr.sleeps) :
            /\ fr.sleeps[k] = Min(fr.base_delay * Pow2(k - 1), 30)
            /\ fr.sleeps[k] <= 30

\* C6: the startup request is re-issued while device_list or brand_list is
\* empty; the device-info request is only issued with both tables non-empty
\* and the bridge running; the retry loop is left only with both tables
\* non-empty or with running false, and then without a device-info request.
C6_DeviceInfoOnlyWithTables ==
  [][LET dp == data_processor
         bothNonEmpty == /\ Len(dp.device_list) = 1 /\ DOMAIN dp.device_list[1] # {}
                         /\ Len(dp.brand_list) = 1 /\ DOMAIN dp.brand_list[1] # {}
         inLoop == pc[MainTask] \in {"su_sleep1", "su_backoff"}
         issuesStartup == /\ pc[MainTask] # "request" /\ pc'[MainTask] = "request"
                          /\ frame'[MainTask].request_data = STARTUP_DATA
         issuesDevInfo == devInfoCalls' # devInfoCalls
         leavesLoop == /\ inLoop /\ pc'[MainTask] \notin {"su_sleep1", "su_backoff"}
                       /\ ~issuesStartup
     IN /\ issuesDevInfo => (bothNonEmpty /\ running)
        /\ (pc[MainTask] = "su_backoff" /\ pc'[MainTask] # "su_backoff"
              /\ running /\ ~bothNonEmpty) => issuesStartup
        /\ (pc[MainTask] = "su_sleep1" /\ pc'[MainTask] # "su_sleep1"
              /\ ~bothNonEmpty) => pc'[MainTask] = "su_backoff"
        /\ leavesLoop => (bothNonEmpty \/ ~running)
        /\ (leavesLoop /\ ~running) => ~issuesDevInfo]_vars

C6_Witness ==
  /\ devInfoCalls = 1
  /\ pc[MainTask] = "request"
  /\ Head(frame[MainTask].request_data) = "141"
  /\ ev.op = "startup_check"

\* C7: with both tables present and the bridge running, the startup sequence
\* calls request_device_info exactly once and is then over, whatever the
\* request yields: at most three attempts, no way back into the retry loop,
\* no restart of the bridge.
C7_DeviceInfoOnceThenDone ==
  LET fr == frame[MainTask]
      devInfoInFlight == pc[MainTask] = "request" /\ Head(fr.request_data) = "141"
      pastStartup == \/ pc[MainTask] \in {"su_done", "sp_spawn", "wait", "stopping"}
                     \/ pc[MainTask] = "request" /\ fr.request_data = POLLING_DATA
  IN /\ devInfoCalls <= 1
     /\ (daemon_args.inverter_import /\ pastStartup /\ ~signalled) => devInfoCalls = 1
     /\ devInfoCalls = 1 =>
          /\ pc[MainTask] \notin {"start", "su_sleep1", "su_backoff"}
          /\ ~(pc[MainTask] = "request" /\ fr.request_data = STARTUP_DATA)
     /\ devInfoInFlight => (fr.calls < 3 /\ fr.ret = "su_done")
     /\ (ev.op = "attempt" /\ ev.task = MainTask /\ Head(ev.req) = "141") =>
          /\ ev.restart = ""
          /\ ~Exited
          /\ ev.returned => pc[MainTask] = "su_done"

C7_Witness ==
  /\ pc[MainTask] = "su_done"
  /\ ev.op = "attempt" /\ ev.returned /\ ev.result = "None"
  /\ devInfoCalls = 1

\* C8: when the device-info request of the startup sequence gave no device
\* names, a device-info request is issued again in a later poll cycle: if
\* polls keep succeeding while inverter_names is empty, request_device_info
\* is eventually called a second time.
C8_DeviceInfoRetriedInLaterCycle ==
  []<>(/\ ev.op = "attempt" /\ ev.task \in {"fast", "regular"} /\ ev.result = "data"
       /\ data_processor.inverter_names = <<>>)
    => <>(devInfoCalls >= 2)

\* C9: a fast-poll payload whose 608 field contains, at any position, a
\* value containing "DENIED" triggers the restart path and is not decoded.
C9_DeniedAnywhereRestarts ==
  (ev.op = "attempt" /\ ev.result = "data"
     /\ \E k \in 1..Len(ev.status608) : ev.status608[k] = "ACCESS DENIED")
    => (ev.restart = "Access denied" /\ ev.decoders = {})

\* The decoder the claim assigns to a request shape.
ClaimedDecoder(req) ==
  CASE Head(req) = "152" -> {"startup"}
    [] Head(req) = "141" -> {"device_info"}
    [] Head(req) = "447" -> {"periodic"}
    [] Head(req) = "608" -> {"fast"}
    [] Head(req) = "801" -> {"basic"}
    [] Head(req) = "854" -> {"historic"}
    [] Head(req) = "/months.json" -> {"months"}
    [] Head(req) = "/years.json" -> {"years"}
    [] OTHER -> {}

\* C10: the dispatcher runs exactly the decoder of the request's shape;
\* for any other shape no decoder runs, nothing is published and the
\* processor state is unchanged.
C10_DispatchByShape ==
  [][(ev'.op = "attempt" /\ ev'.result = "data" /\ ev'.restart = ""
        /\ ev'.entry \in {"log_check", "https_request"}) =>
       /\ ev'.decoders = ClaimedDecoder(ev'.req)
       /\ Cardinality(ev'.decoders) <= 1
       /\ ev'.decoders = {} => (ev'.published = {} /\ data_processor' = data_processor)]_vars

C10_Witness ==
  /\ ev.op = "attempt" /\ ev.result = "data"
  /\ ev.req = SIMPLE_STARTUP_DATA
  /\ ev.decoders = {}

\* A task sends a request to the device in this step: it calls log_check or
\* https_request, or request_with_retry starts a further attempt.
IssuesRequest ==
  \E t \in Tasks \ {Harness} :
    \/ pc[t] # "request" /\ pc'[t] = "request"
    \/ pc[t] = "request" /\ pc'[t] = "request" /\ frame'[t].i > frame[t].i

\* C20: once running is false (signal or restart) no loop and no part of
\* the startup path issues a new request to the device; only the attempt
\* already in flight completes.
C20_NoNewRequestAfterStop ==
  [][(~running /\ session = "open") => ~IssuesRequest]_vars

Classified == ev.op = "decode" /\ ev.decoders = {"device_info"} /\ "141" \in ev.payload.keys

\* C11: device_infos is as long as inverter_names, and device_types,
\* device_brands and device_classes are each empty or as long as
\* inverter_names, also after classifying tables with missing or malformed
\* records.
C11_AlignedLists ==
  LET dp == data_processor
      n == Len(dp.inverter_names)
  IN /\ Len(dp.device_infos) = n
     /\ Len(dp.device_types) \in {0, n}
     /\ Len(dp.device_brands) \in {0, n}
     /\ Len(dp.device_classes) \in {0, n}

\* What the record under `code` dictates: nothing (missing, malformed)
\* gives the placeholders, a well-formed record its own type, brand and class.
WellFormed(rec) ==
  /\ rec.isList /\ Len(rec.items) > 5
  /\ rec.items[1].t = "int" /\ rec.items[2].t = "str" /\ rec.items[6].t = "int"
Dictated(dp, code) ==
  LET dl == dp.device_list[1]
      bl == dp.brand_list[1]
  IN IF code \notin DOMAIN dl \/ ~WellFormed(dl[code])
     THEN <<"Unknown", "Unknown", "Wechselrichter">>
     ELSE <<dl[code].items[2].s,
            IF dl[code].items[1].v \in DOMAIN bl THEN bl[dl[code].items[1].v] ELSE "Unknown",
            ClassOfRecord(dl[code])>>

\* C12: with non-empty tables, the type, brand and class at index i are
\* what the record of device_infos[i] dictates (placeholders when the code
\* is missing or the record malformed), one entry per list and index.
C12_IndexwiseClassification ==
  LET dp == data_processor
      n == Len(dp.inverter_names)
  IN (Classified /\ Truthy(dp.device_list) /\ Truthy(dp.brand_list) /\ n > 0) =>
       /\ Len(dp.device_types) = n /\ Len(dp.device_brands) = n /\ Len(dp.device_classes) = n
       /\ \A i \in 1..n :
            <<dp.device_types[i], dp.device_brands[i], dp.device_classes[i]>>
              = Dictated(dp, dp.device_infos[i])

IsPow2(n) == \E k \in 0..12 : n = Pow2(k)

\* C13: a bitmask 2^n with 0 <= n <= 9 gives DEVICE_CLASS_LIST[n]; a bitmask
\* that is no power of two, or whose n is out of range, gives type and brand
\* "Unknown", class "Wechselrichter", and no battery.
C13_ClassFromBitmask ==
  LET dp == data_processor
      n == Len(dp.inverter_names)
  IN (Classified /\ Truthy(dp.device_list) /\ Truthy(dp.brand_list)
        /\ Len(dp.device_types) = n /\ Len(dp.device_brands) = n
        /\ Len(dp.device_classes) = n) =>
       \A i \in 1..n :
         LET code == dp.device_infos[i]
             dl == dp.device_list[1]
         IN (code \in DOMAIN dl /\ WellFormed(dl[code]) /\ dl[code].items[6].v > 0) =>
              LET b == dl[code].items[6].v
              IN IF IsPow2(b) /\ FloorLog2(b) <= 9
                 THEN dp.device_classes[i] = DEVICE_CLASS_LIST[FloorLog2(b) + 1]
                 ELSE /\ dp.device_types[i] = "Unknown"
                      /\ dp.device_brands[i] = "Unknown"
                      /\ dp.device_classes[i] = "Wechselrichter"
                      /\ \A k \in 1..Len(dp.battery_index) : dp.battery_index[k] # i - 1

\* C16: in the startup decode a malformed model value (800/100) is skipped
\* on its own: tables 739/744 of the same payload are stored and the
\* inverter count is derived from 740.
C16_MalformedFieldIsolated ==
  (ev.op = "decode" /\ ev.decoders = {"startup"}
     /\ {"739", "744", "740", "800"} \subseteq ev.payload.keys) =>
    /\ data_processor.device_list = Some(ev.payload.t739)
    /\ data_processor.brand_list = Some(ev.payload.t744)
    /\ data_processor.num_inverters = Len(ev.payload.t740)

\* C14: once a fast poll published a non-zero value on status/pac or
\* status/conspac, a following periodic payload with a zero or missing
\* value for that topic does not publish 0 on it.
C14_PeriodicZeroSuppressed ==
  [][\A topic \in {"status/pac", "status/conspac"} :
       (/\ ev.op = "decode" /\ ev.decoders = {"fast"}
        /\ \E p \in ev.pubs : p.topic = topic /\ p.value # JInt(0)
        /\ ev'.op = "decode" /\ ev'.decoders = {"periodic"})
         => Pub(topic, JInt(0)) \notin ev'.pubs]_vars

\* C15: decoding the same payload twice in succession publishes the same
\* (topic, value) pairs the second time and leaves the processor as the
\* first pass left it.
C15_DecodeIdempotent ==
  ev.op = "decode_again" => (ev.pubs = ev.first_pubs /\ ev.same_state)

\* C17: no exception leaves a decode entry point of the DataProcessor,
\* whatever the payload holds.
C17_NoExceptionEscapes ==
  ev.op \in {"decode", "decode_again"} => ~ev.escaped

\* C18: in the 801/170 summary a field among 105..115 that is absent or
\* null is published as 0, and the other summary topics of the payload are
\* published as well.
C18_SummaryDefaultsToZero ==
  (ev.op = "decode" /\ ev.decoders = {"periodic"} /\ "801" \in ev.payload.keys
     /\ ev.payload.j101.t \in {"absent", "int"}) =>
    /\ ev.payload.j105.t \in {"absent", "null"} => Pub("status/yieldday", JInt(0)) \in ev.pubs
    /\ ev.payload.j107.t \in {"absent", "null"} => Pub("status/yieldmonth", JInt(0)) \in ev.pubs
    /\ {"status/conspac", "status/yieldday", "status/yieldyesterday", "status/yieldmonth",
        "status/yieldyear", "status/yieldtotal", "status/consyieldday",
        "status/consyieldyesterday", "status/consyieldmonth", "status/consyieldyear",
        "status/consyieldtotal"} \subseteq ev.published

\* C19: the decode and publish of one payload complete in the step that
\* starts them: no handler is ever suspended between its first and its last
\* mutation or publish, so no other task runs while the processor is
\* partially updated.
C19_DecodeWithoutYield ==
  /\ \A t \in Tasks : pc[t] # "in_handler"
  /\ (ev.op = "attempt" /\ ev.decoders # {}) => ~ev.partial

\* A periodic payload was decoded and published by the regular loop while
\* the fast loop has a request in flight.
C19_Witness ==
  /\ ev.op = "attempt" /\ ev.task = "regular" /\ ev.decoders = {"periodic"}
  /\ "status/conspac" \in ev.published /\ "info/totalPower" \in ev.published
  /\ pc["fast"] = "request"
  /\ pc["regular"] # "request"

\* C21: with credentials configured, login() stores the token, resets
\* login_failures to 0 and returns True on a 200 answer that carries a
\* session token; in every other outcome it returns False, keeps the stored
\* token and adds exactly 1 to login_failures.
C21_LoginContract ==
  (ev.exchange.made /\ ev.exchange.logins = 1 /\ daemon_args.credentials) =>
    LET x == ev.exchange
    IN IF ~x.login.err /\ x.login.status = 200
          /\ \E k \in 1..Len(x.login.text) : x.login.text[k] = "SolarLog="
       THEN /\ x.ok
            /\ x.after.data_token = TokenOf(x.login.text)
            /\ x.after.login_failures = 0
       ELSE /\ ~x.ok
            /\ x.after.data_token = x.before.data_token
            /\ x.after.login_failures = x.before.login_failures + 1

\* C22: check_login_status() with credentials: a status probe that answers
\* with "0" as its first semicolon-delimited field leads to exactly one
\* login() whose result is returned; any other first field returns True
\* without a login(); without credentials True is returned and no
\* transport call is made.
C22_ProbeThenLoginFallback ==
  (ev.op \in {"check_login_status", "attempt"} /\ ev.exchange.made) =>
    LET x == ev.exchange
        body == x.probe.text
        first_is_zero == /\ Len(body) >= 1 /\ body[1] = "0"
                         /\ (Len(body) = 1 \/ body[2] = ";")
        posts == {k \in 1..Len(x.calls) : x.calls[k] = "POST /login"}
    IN IF ~daemon_args.credentials
       THEN x.ok /\ x.calls = <<>>
       ELSE (~x.probe.err /\ x.probe.status = 200) =>
              IF first_is_zero
              THEN /\ x.logins = 1 /\ Cardinality(posts) = 1
                   /\ x.ok = (~x.login.err /\ x.login.status = 200 /\ HasToken(x.login.text))
              ELSE x.ok /\ x.logins = 0 /\ posts = {}

\* The probe answered "0;" and the login that followed returned a token.
C22_Witness ==
  /\ ev.op = "check_login_status" /\ daemon_args.credentials
  /\ ev.exchange.probe.text = <<"0", ";">>
  /\ ev.exchange.logins = 1 /\ ev.exchange.ok
  /\ auth.data_token = <<"abc">>

\* C23: with credentials configured, if from some point on every attempt
\* ends in a failed auth check or login while the loop keeps polling, and
\* login_failures has passed MAX_LOGIN_FAILURES, a bridge restart is
\* eventually initiated.
C23_AuthFailuresRestart ==
  (/\ daemon_args.credentials
   /\ <>[](ev.op = "attempt" => ~ev.exchange.ok)
   /\ <>[](auth.login_failures > MAX_LOGIN_FAILURES)
   /\ []<>(ev.op = "attempt"))
    => <>RestartEntered

(***************************************************************************)
(* Device discovery                                                        *)
(***************************************************************************)
\* data_740.get(str(i), "Err") == "Err": the entry is missing or is "Err"
EndsScan(t740, i) == (i + 1 \notin DOMAIN t740) \/ t740[i + 1] = "Err"
FirstEnd(t740) ==
  CHOOSE i \in 0..SCAN_LIMIT :
    /\ i = SCAN_LIMIT \/ EndsScan(t740, i)
    /\ \A j \in 0..(i - 1) : ~EndsScan(t740, j)
DiscoveryRan ==
  /\ ev.op = "decode" /\ ev.decoders = {"startup"}
  /\ "740" \in ev.payload.keys
  /\ ~("800" \in ev.payload.keys /\ ~ParsesAsInt(ev.payload.model))

\* C24: after a startup decode whose device discovery read a 740 table,
\* num_inverters is the smallest index whose entry is missing or "Err",
\* at most 100, and info/numinv is published once, as max(count - 1, 0).
C24_CountsToFirstErr ==
  DiscoveryRan =>
    /\ data_processor.num_inverters = FirstEnd(ev.payload.t740)
    /\ {p \in ev.pubs : p.topic = "info/numinv"}
         = {Pub("info/numinv", JInt(Max(FirstEnd(ev.payload.t740) - 1, 0)))}
C24_Witness ==
  /\ DiscoveryRan /\ ev.payload.t740 = <<"OK", "OK", "Err">>
  /\ data_processor.num_inverters = 2
  /\ Pub("info/numinv", JInt(1)) \in ev.pubs

(***************************************************************************)
(* Feed-in and feed-out                                                    *)
(***************************************************************************)
\* A fast payload with production and consumption as numbers (null reads 0)
FastWithPowers ==
  /\ ev.op = "decode" /\ ev.decoders = {"fast"}
  /\ {"780", "781"} \subseteq ev.payload.keys
  /\ ev.payload.p780.t \in {"int", "null"} /\ ev.payload.p781.t \in {"int", "null"}
PublishedOn(topic) == {p.value : p \in {q \in ev.pubs : q.topic = topic}}

\* C25: with feed = P - C, a positive feed is published as feedin = feed,
\* feedout = 0, feedinactive = true; any other feed as feedin = 0,
\* feedout = |feed|, feedinactive = false; feedin and feedout are never both
\* non-zero, and exactly one of them is non-zero unless feed = 0.
C25_FeedSplit ==
  FastWithPowers =>
    LET P == IF ev.payload.p780.t = "int" THEN ev.payload.p780.v ELSE 0
        C == IF ev.payload.p781.t = "int" THEN ev.payload.p781.v ELSE 0
        feed == P - C
        feedin == PublishedOn("status/feedin")
        feedout == PublishedOn("status/feedout")
    IN /\ feed > 0 => /\ feedin = {JInt(feed)} /\ feedout = {JInt(0)}
                       /\ PublishedOn("status/feedinactive") = {JInt(1)}
       /\ feed <= 0 => /\ feedin = {JInt(0)} /\ feedout = {JInt(IF feed < 0 THEN 0 - feed ELSE feed)}
                        /\ PublishedOn("status/feedinactive") = {JInt(0)}
       /\ feed # 0 => Cardinality({x \in feedin \cup feedout : x # JInt(0)}) = 1
                       /\ JInt(0) \in feedin \cup feedout
       /\ feed = 0 => feedin \cup feedout = {JInt(0)}
C25_Witness ==
  /\ FastWithPowers /\ ev.payload.p780 = JNull /\ ev.payload.p781 = JInt(300)
  /\ PublishedOn("status/feedout") = {JInt(300)}
  /\ PublishedOn("status/feedin") = {JInt(0)}

(***************************************************************************)
(* Self-consumption                                                        *)
(***************************************************************************)
\* A periodic payload with table 778 was decoded
SelfConsDecoded ==
  /\ ev.op \in {"decode", "decode_again"} /\ ev.decoders = {"periodic"}
  /\ "778" \in ev.payload.keys
\* r is S / Y * 1000 rounded to a whole number (tenths of a percent)
IsRounded(r, S, Y) ==
  LET d == r * Y - S * 1000 IN 2 * (IF d < 0 THEN 0 - d ELSE d) <= Y
RatioIs(topic, S, Y) ==
  /\ Cardinality(PublishedOn(topic)) = 1
  /\ \A x \in PublishedOn(topic) :
       x.t = "int" /\ (IF Y > 0 THEN IsRounded(x.v, S, Y) ELSE x.v = 0)

\* C26: for the row of today (of yesterday) with self-consumption S and the
\* daily yield Y the processor holds, the published ratio is S / Y * 1000
\* rounded, over ten, when Y > 0 and 0 when Y = 0; the decode never fails.
C26_RatioRoundedOrZero ==
  SelfConsDecoded =>
    /\ ev.payload.sc_today.t = "int"
         => RatioIs("SelfCons/selfconsratiotoday", ev.payload.sc_today.v, observed.yields[1])
    /\ ev.payload.sc_yesterday.t = "int"
         => RatioIs("SelfCons/selfconsratioyesterday", ev.payload.sc_yesterday.v,
                    observed.yields[2])
    /\ YESTERDAY_TOPICS \subseteq ev.published
C26_Witness ==
  /\ SelfConsDecoded /\ observed.yields = <<3, 2000>>
  /\ ev.payload.sc_today = JInt(500) /\ ev.payload.sc_yesterday = JInt(3)
  /\ PublishedOn("SelfCons/selfconsratiotoday") = {JInt(166667)}
  /\ PublishedOn("SelfCons/selfconsratioyesterday") = {JInt(2)}

\* C27: when the payload has no row of yesterday, what is published on
\* selfconsyesterday and selfconsratioyesterday are the figures last
\* published from a row of yesterday.
C27_FallbackIsYesterday ==
  (SelfConsDecoded /\ ev.payload.sc_yesterday.t = "absent") =>
    {q \in ev.pubs : q.topic \in YESTERDAY_TOPICS} \subseteq observed.seen_yesterday

(***************************************************************************)
(* Historic aggregates                                                     *)
(***************************************************************************)
HistoricDecoded(decoder, key) ==
  /\ ev.op = "decode" /\ ev.decoders = {decoder} /\ key \in ev.payload.keys

\* C28: table 877 ending in [d0, 100, 80, 10], [d1, 120, 90, 15] publishes
\* the current month as 15 with ratio 16.7 and the last month as 10 with
\* ratio 12.5 (167 and 125 tenths).
C28_MonthRatios ==
  (/\ HistoricDecoded("historic", "877")
   /\ Len(ev.payload.t877) >= 2
   /\ SubSeq(ev.payload.t877, Len(ev.payload.t877) - 1, Len(ev.payload.t877)) = SAMPLE_ROWS)
    => /\ PublishedOn("SelfCons/selfconsmonth") = {JInt(15)}
       /\ PublishedOn("SelfCons/selfconsratiomonth") = {JInt(167)}
       /\ PublishedOn("SelfCons/selfconslastmonth") = {JInt(10)}
       /\ PublishedOn("SelfCons/selfconsratiolastmonth") = {JInt(125)}

\* A table of at least two rows that all have four fields
FullTable(table) == Len(table) >= 2 /\ \A r \in 1..Len(table) : Len(table[r]) >= 4
LastIsCurrent(table, current, last) ==
  FullTable(table) =>
    /\ PublishedOn(current) = {JInt(table[Len(table)][4])}
    /\ PublishedOn(last) = {JInt(table[Len(table) - 1][4])}

\* C29: /months.json and /years.json, like 877 and 878, publish the last
\* row as the current period and the row before it as the previous one.
C29_LastRowIsCurrent ==
  /\ HistoricDecoded("historic", "877")
       => LastIsCurrent(ev.payload.t877, MONTH_TOPICS[1], LAST_MONTH_TOPICS[1])
  /\ HistoricDecoded("historic", "878")
       => LastIsCurrent(ev.payload.t878, YEAR_TOPICS[1], LAST_YEAR_TOPICS[1])
  /\ HistoricDecoded("months", "rows")
       => LastIsCurrent(ev.payload.rows, MONTH_TOPICS[1], LAST_MONTH_TOPICS[1])
  /\ HistoricDecoded("years", "rows")
       => LastIsCurrent(ev.payload.rows, YEAR_TOPICS[1], LAST_YEAR_TOPICS[1])

(***************************************************************************)
(* The historic run                                                        *)
(***************************************************************************)
\* The historic task has just called log_check or https_request
HistoricIssued(op) ==
  ev.task = "historic" /\ ev.op = op /\ pc["historic"] = "request"
\* A request of the historic task has just returned without a restart
HistoricReturned(first) ==
  /\ ev.task = "historic" /\ ev.op = "attempt" /\ ev.returned
  /\ ev.restart = "" /\ Head(ev.req) = first

\* C30: a historic run calls /getjp, then /months.json, then /years.json;
\* the /getjp body is 854 alone exactly when the stored model is 500 and
\* 854, 877, 878 otherwise; whatever a request returns, the run goes on to
\* the next one.
C30_HistoricSequence ==
  /\ HistoricIssued("historic_run")
       => /\ frame["historic"].entry = "log_check"
          /\ frame["historic"].request_data
               = (IF data_processor.solar_log_model = <<500>>
                  THEN <<"854">> ELSE <<"854", "877", "878">>)
  /\ HistoricIssued("historic_months")
       => /\ frame["historic"].entry = "https_request"
          /\ Head(frame["historic"].request_data) = "/months.json"
  /\ HistoricIssued("historic_years")
       => /\ frame["historic"].entry = "https_request"
          /\ Head(frame["historic"].request_data) = "/years.json"
  /\ HistoricReturned("854") => pc["historic"] = "h_sleep2"
  /\ HistoricReturned("/months.json") => pc["historic"] = "h_sleep5"
  /\ HistoricReturned("/years.json") => pc["historic"] \in {"h_wait", "done"}
C30_Witness ==
  /\ HistoricReturned("854") /\ ev.result = "None" /\ ev.error
  /\ data_processor.solar_log_model = <<500>>
  /\ ev.req = <<"854">>
  /\ pc["historic"] = "h_sleep2"

(***************************************************************************)
(* Configuration                                                           *)
(***************************************************************************)
\* The effective configuration holds a value validate_config rejects
OutOfRange(ns) == ValidateRaises(ns)
\* parse_config is over
Configured == pc[MainTask] # "parse_config"

\* C31: when the effective configuration holds an out-of-range value, no
\* device client is created and no request of the polling is ever issued.
C31_InvalidConfigStopsStartup ==
  (Configured /\ OutOfRange(daemon_args))
    => (session = "None" /\ \A t \in Tasks : frame[t] = NoFrame)

(***************************************************************************)
(* The tables of the startup sequence                                      *)
(***************************************************************************)
\* perform_startup_sequence has left its while loop: no STARTUP_DATA
\* request is in flight or still to come
StartupSequenceOver ==
  /\ pc[MainTask] \notin {"start", "su_sleep1", "su_backoff"}
  /\ ~(pc[MainTask] \in {"request", "in_handler"} /\ frame[MainTask].ret = "su_sleep1")
\* device_list, brand_list and switch_group_names
Topology(dp) == <<dp.device_list, dp.brand_list, dp.switch_group_names>>

\* C32: once the startup sequence is over, no step (a device-info, fast,
\* periodic or historic decode, in any order) changes device_list,
\* brand_list or switch_group_names.
C32_TopologyFrozen ==
  [][StartupSequenceOver => Topology(data_processor') = Topology(data_processor)]_vars
C32_Witness ==
  /\ StartupSequenceOver
  /\ Truthy(data_processor.device_list) /\ Truthy(data_processor.brand_list)
  /\ DOMAIN data_processor.switch_group_names = 1..MAX_SWITCH_GROUPS
  /\ ev.op = "attempt" /\ ev.task = "regular" /\ ev.decoders = {"periodic"}
  /\ ev.result = "data"

(***************************************************************************)
(* Switch groups                                                           *)
(***************************************************************************)
\* The name the JSON block gives position k, <<>> when it gives none
NameAt(block, k) ==
  LET entry == DictGet(block, KeyStr(k))
      name == IF entry # None THEN DictGet(entry[1], KeyStr(100)) ELSE None
  IN IF name # None THEN name[1] ELSE <<>>
\* A startup decode of a block 447 that names a position below 10
SwitchGroupsDecoded ==
  /\ ev.op = "decode" /\ ev.decoders = {"startup"} /\ "447" \in ev.payload.keys
  /\ \E k \in 0..(MAX_SWITCH_GROUPS - 1) : NameAt(ev.payload.t447, k) # <<>>

\* C33: after a startup decode of a JSON block 447 with a non-empty name at
\* a position k < 10, switch_group_names has exactly 10 slots, slot k holds
\* the name without its spaces, the slots without a name hold None, and
\* num_switch_groups is the number of non-empty names.
C33_SwitchGroupTable ==
  SwitchGroupsDecoded =>
    /\ DOMAIN data_processor.switch_group_names = 1..MAX_SWITCH_GROUPS
    /\ \A k \in 0..(MAX_SWITCH_GROUPS - 1) :
         data_processor.switch_group_names[k + 1]
           = (IF NameAt(ev.payload.t447, k) # <<>>
              THEN Some(WithoutSpaces(NameAt(ev.payload.t447, k))) ELSE None)
    /\ data_processor.num_switch_groups
         = Cardinality({k \in 0..(MAX_SWITCH_GROUPS - 1) : NameAt(ev.payload.t447, k) # <<>>})

(***************************************************************************)
(* Request bodies and the dispatcher                                       *)
(***************************************************************************)
\* C34: every successful response to a request of the scheduler is handed
\* to a decoder: the body of every request it issues has a shape that
\* process_response or process_json_response recognises.
C34_EveryResponseDecoded ==
  (WrappedAttempt /\ ev.result = "data" /\ ev.restart = "") => ev.decoders # {}

(***************************************************************************)
(* Restart, device names, batteries, the order of the first requests       *)
(***************************************************************************)
\* The tasks that have entered restart_bridge
Restarting == {t \in Tasks : restart_reason[t] # ""}

\* C35: restart_bridge is entered at most once per process: while one task
\* waits out the restart delay no other task enters it.
C35_RestartOnce == Cardinality(Restarting) <= 1

\* A device-info response with block 141 was decoded
DeviceInfoDecoded ==
  /\ ev.op \in {"decode", "decode_again"} /\ ev.decoders = {"device_info"}
  /\ "141" \in ev.payload.keys

\* C36: after a device-info decode, position i of inverter_names and of
\* device_infos holds the name and the info code of the device with index
\* i, also when the response lacks some indices.
C36_NamesByDeviceIndex ==
  DeviceInfoDecoded =>
    \A k \in 1..Len(data_processor.inverter_names) :
      /\ data_processor.inverter_names[k] = k - 1
      /\ data_processor.device_infos[k] = InfoCode(ev.payload, k - 1)

\* C37: a periodic decode of a payload with today's row of table 778 and
\* the daily yield (801/170 field 105) publishes the ratio of today
\* computed from the yield of that payload.
C37_RatioFromSamePayload ==
  (/\ SelfConsDecoded /\ "801" \in ev.payload.keys
   /\ ev.payload.sc_today.t = "int" /\ ev.payload.j105.t = "int")
    => RatioIs("SelfCons/selfconsratiotoday", ev.payload.sc_today.v, ev.payload.j105.v)

\* C38: every element of battery_index is a position of inverter_names
\* whose device class is "Batterie", and battery_device_present is true
\* exactly when battery_index is not empty.
C38_BatteryIndexValid ==
  /\ \A k \in 1..Len(data_processor.battery_index) :
       LET i == data_processor.battery_index[k] + 1
       IN /\ i \in 1..Len(data_processor.inverter_names)
          /\ i \in 1..Len(data_processor.device_classes)
          /\ data_processor.device_classes[i] = "Batterie"
  /\ data_processor.battery_device_present <=> data_processor.battery_index # <<>>

\* A cadence loop of the full polling mode has a request in progress
CadenceRequest == \E t \in {"fast", "regular"} : pc[t] \in {"request", "in_handler"}
\* start_polling has created its tasks
Spawned == pc[MainTask] \in {"wait", "stopping", "done"}
\* The last step was the seeding poll returning to start_polling
SeedReturned ==
  /\ ev.task = MainTask /\ ev.op \in {"attempt", "resume"} /\ ev.returned
  /\ ev.entry = "log_check" /\ ev.req = POLLING_DATA

\* C39: with inverter import, a cadence loop issues a request only after
\* the startup sequence has requested the device info and the seeding
\* periodic poll has returned: start_polling creates the loops right after
\* that poll, and while it is at an earlier point no loop exists.
C39_CadenceAfterSeed ==
  daemon_args.inverter_import =>
    /\ CadenceRequest => (Spawned /\ devInfoCalls >= 1)
    /\ ~Spawned => \A t \in {"fast", "regular"} : pc[t] = "idle"
    /\ (pc[MainTask] = "sp_spawn" /\ ~signalled) => SeedReturned
C39_Witness ==
  /\ daemon_args.inverter_import /\ pc["fast"] = "request" /\ pc["regular"] = "request"
  /\ devInfoCalls = 1 /\ pc[MainTask] = "wait"

====
